---- MODULE Spec2Model ----
(***************************************************************************)
(* A model of multibuild (github.com/rburchell/multibuild): the filter     *)
(* matcher, the target list resolver and the bounded-concurrency build     *)
(* dispatcher.                                                             *)
(*                                                                         *)
(* Go strings are modelled as sequences of one-character strings, so that  *)
(* splitting, prefix tests and replacement are computed character by       *)
(* character as the Go code computes them.                                 *)
(***************************************************************************)
EXTENDS Integers, Sequences, FiniteSets, Bags, TLC

(***************************************************************************)
(* String literals used by the program and by the modelled inputs.         *)
(***************************************************************************)
sLinux == <<"l", "i", "n", "u", "x">>
sWindows == <<"w", "i", "n", "d", "o", "w", "s">>
sDarwin == <<"d", "a", "r", "w", "i", "n">>
sAndroid == <<"a", "n", "d", "r", "o", "i", "d">>
sIos == <<"i", "o", "s">>
sAmd64 == <<"a", "m", "d", "6", "4">>
sArm64 == <<"a", "r", "m", "6", "4">>
s386 == <<"3", "8", "6">>
sStar == <<"*">>
sSlash == <<"/">>
sMarker == <<"/", "/", "g", "o", ":", "m", "u", "l", "t", "i", "b", "u", "i", "l", "d", ":">>
sKeyOutput == <<"o", "u", "t", "p", "u", "t", "=">>
sKeyInclude == <<"i", "n", "c", "l", "u", "d", "e", "=">>
sKeyExclude == <<"e", "x", "c", "l", "u", "d", "e", "=">>
sPhTarget == <<"$", "{", "T", "A", "R", "G", "E", "T", "}">>
sPhGoos == <<"$", "{", "G", "O", "O", "S", "}">>
sPhGoarch == <<"$", "{", "G", "O", "A", "R", "C", "H", "}">>
sDefaultOutput == <<"$", "{", "T", "A", "R", "G", "E", "T", "}", "-", "$", "{", "G", "O", "O", "S", "}", "-", "$", "{", "G", "O", "A", "R", "C", "H", "}">>
sExe == <<".", "e", "x", "e">>
sDashO == <<"-", "o">>
sAndroidAll == <<"a", "n", "d", "r", "o", "i", "d", "/", "*">>
sIosAll == <<"i", "o", "s", "/", "*">>
sAll == <<"*", "/", "*">>

LowerChars == {"a", "b", "c", "d", "e", "f", "g", "h", "i", "j", "k", "l", "m", "n", "o", "p", "q", "r", "s", "t", "u", "v", "w", "x", "y", "z"}
UpperChars == {"A", "B", "C", "D", "E", "F", "G", "H", "I", "J", "K", "L", "M", "N", "O", "P", "Q", "R", "S", "T", "U", "V", "W", "X", "Y", "Z"}
DigitChars == {"0", "1", "2", "3", "4", "5", "6", "7", "8", "9"}
SpaceChars == {" ", "\t", "\r", "\n"}

\* "<os>/<arch>": the text of a target or of a filter.
Pair(goos, goarch) == goos \o sSlash \o goarch

(***************************************************************************)
(* strings helpers (Go standard library, by what they compute).            *)
(***************************************************************************)
\* strings.Index(s, c) for a one-character c, 1-based; 0 when c is absent.
IndexByte(s, c) ==
  IF \E i \in 1..Len(s) : s[i] = c
  THEN CHOOSE i \in 1..Len(s) : s[i] = c /\ \A j \in 1..(i - 1) : s[j] # c
  ELSE 0

\* strings.SplitN(s, "/", 2): at most two parts, cut at the first '/'.
SplitN2(s) ==
  LET k == IndexByte(s, "/")
  IN IF k = 0 THEN <<s>>
     ELSE <<SubSeq(s, 1, k - 1), SubSeq(s, k + 1, Len(s))>>

\* strings.HasPrefix(s, prefix)
HasPrefix(s, prefix) ==
  Len(s) >= Len(prefix) /\ SubSeq(s, 1, Len(prefix)) = prefix

\* strings.TrimPrefix(s, prefix)
TrimPrefix(s, prefix) ==
  IF HasPrefix(s, prefix) THEN SubSeq(s, Len(prefix) + 1, Len(s)) ELSE s

\* strings.TrimSpace(s): s without its leading and trailing white space.
TrimSpace(s) ==
  LET inner == {i \in 1..Len(s) : s[i] \notin SpaceChars}
  IN IF inner = {} THEN <<>>
     ELSE LET lo == CHOOSE i \in inner : \A j \in inner : i <= j
              hi == CHOOSE i \in inner : \A j \in inner : j <= i
          IN SubSeq(s, lo, hi)

\* strings.ReplaceAll(s, old, new) for a non-empty old: the non-overlapping
\* occurrences of old, found left to right, are replaced by new.
RECURSIVE ReplaceAll(_, _, _)
ReplaceAll(s, old, new) ==
  IF Len(s) = 0 THEN <<>>
  ELSE IF HasPrefix(s, old)
       THEN new \o ReplaceAll(SubSeq(s, Len(old) + 1, Len(s)), old, new)
       ELSE <<s[1]>> \o ReplaceAll(SubSeq(s, 2, Len(s)), old, new)

\* strings.Split(s, "/"): every part between the '/' characters.
RECURSIVE SplitSlash(_)
SplitSlash(s) ==
  LET k == IndexByte(s, "/")
  IN IF k = 0 THEN <<s>>
     ELSE <<SubSeq(s, 1, k - 1)>> \o SplitSlash(SubSeq(s, k + 1, Len(s)))

(***************************************************************************)
(* options.go: filter.matches                                              *)
(***************************************************************************)
\* A match as soon as one of the two components matches.
matchesEither(this, target) ==
  LET parts == SplitN2(this)
      targetParts == SplitN2(target)
  IN IF Len(parts) # 2 THEN target = this
     ELSE IF Len(targetParts) # 2 THEN FALSE
     ELSE \/ parts[1] = sStar \/ parts[1] = targetParts[1]
          \/ parts[2] = sStar \/ parts[2] = targetParts[2]

matches(this, target) ==
  LET parts == SplitN2(this)
  IN IF Len(parts) # 2 THEN target = this
     ELSE LET filterOS == parts[1]
              filterArch == parts[2]
              targetParts == SplitN2(target)
          IN IF Len(targetParts) # 2 THEN FALSE
             ELSE LET targetOS == targetParts[1]
                      targetArch == targetParts[2]
                      matchOS == filterOS = sStar \/ filterOS = targetOS
                      matchArch == filterArch = sStar \/ filterArch = targetArch
                  IN matchOS /\ matchArch

(***************************************************************************)
(* utils.go: filterSlice.  The loop appends every kept element, in input   *)
(* order, to a freshly made slice.  keep is the predicate, given as a      *)
(* function from the elements of s to BOOLEAN.                             *)
(***************************************************************************)
Range(s) == {s[i] : i \in 1..Len(s)}

filterSlice(s, keep) ==
  LET loop[i \in 0..Len(s)] ==
        IF i = 0 THEN <<>>
        ELSE IF keep[s[i]] THEN Append(loop[i - 1], s[i]) ELSE loop[i - 1]
  IN loop[Len(s)]

\* The argument slice after a filter that compacts the kept elements into
\* the front of s itself (s[:0]).
filterSliceArgInPlace(s, keep) ==
  LET out == filterSlice(s, keep)
  IN out \o SubSeq(s, Len(out) + 1, Len(s))

\* The elements of the argument slice s once filterSlice has returned: the
\* result is built in a slice of its own (make), s itself is never written.
filterSliceArg(s, keep) == s

(***************************************************************************)
(* options.go: options.buildTargetList                                     *)
(***************************************************************************)
NoErr == [kind |-> "nil"]

\* A first pass that keeps every target when no include filter is declared.
includeKeepAllIfNone(this, target) ==
  \/ Len(this.Include) = 0
  \/ \E i \in 1..Len(this.Include) : matches(this.Include[i], target)

\* First pass: keep the targets some include filter matches.
includeKeep(this, target) ==
  \E i \in 1..Len(this.Include) : matches(this.Include[i], target)

\* Second pass: drop the targets some exclude filter matches.
excludeKeep(this, target) ==
  ~\E i \in 1..Len(this.Exclude) : matches(this.Exclude[i], target)

\* slices.ContainsFunc(targets, inc.matches)
ContainsFunc(targets, inc) ==
  \E i \in 1..Len(targets) : matches(inc, targets[i])

\* The presence check applied to the first include filter only.
missingIncludeFirstOnly(this, targets) ==
  IF Len(this.Include) > 0 /\ ~ContainsFunc(targets, this.Include[1]) THEN 1 ELSE 0

\* "Check includes still present": the first include filter, in declaration
\* order, that no remaining target matches; 0 when every one is matched.
missingInclude(this, targets) ==
  LET bad == {i \in 1..Len(this.Include) : ~ContainsFunc(targets, this.Include[i])}
  IN IF bad = {} THEN 0 ELSE CHOOSE i \in bad : \A j \in bad : i <= j

\* The end of buildTargetList, on the targets left by the two passes.
checkIncludes(this, remaining, miss) ==
  IF miss # 0
  THEN [targets |-> <<>>,
        err |-> [kind |-> "UnsatisfiableInclude", filter |-> this.Include[miss]]]
  ELSE [targets |-> remaining, err |-> NoErr]

dropExcluded(this, included) ==
  filterSlice(included, [t \in Range(included) |-> excludeKeep(this, t)])

\* First pass, as a loop over the filters would make it: the matches of
\* each include filter in turn.
keepIncludedByFilter(this, targets) ==
  LET loop[i \in 0..Len(this.Include)] ==
        IF i = 0 THEN <<>>
        ELSE loop[i - 1] \o
             filterSlice(targets, [t \in Range(targets) |-> matches(this.Include[i], t)])
  IN loop[Len(this.Include)]

keepIncluded(this, targets) ==
  filterSlice(targets, [t \in Range(targets) |-> includeKeep(this, t)])

twoPasses(this, targets) == dropExcluded(this, keepIncluded(this, targets))

checkRemaining(this, remaining) ==
  checkIncludes(this, remaining, missingInclude(this, remaining))

buildTargetList(this, targets) == checkRemaining(this, twoPasses(this, targets))

(***************************************************************************)
(* options.go: validateTemplate.  Indices are 1-based here: the Go index   *)
(* i is i - 1.  An index expression past the end of the string (s[i+1] or  *)
(* s[j] evaluated as an argument of fmt.Errorf) is a run-time panic.       *)
(***************************************************************************)
isAllowedPathChar(c) ==
  c \in LowerChars \cup UpperChars \cup DigitChars \cup {"_", "-", "/", "."}

isAllowedPlaceholderChar(c) ==
  c \in UpperChars \cup DigitChars \cup {"_"}

allowedPlaceholders ==
  { <<"G", "O", "O", "S">>,
    <<"G", "O", "A", "R", "C", "H">>,
    <<"T", "A", "R", "G", "E", "T">> }

TemplateErr(at) == [kind |-> "InvalidTemplate", at |-> at]
Panic == [kind |-> "panic"]

\* The inner loop "for j < len(s) && s[j] != '}'": the index where it stops,
\* negated when it stops at a character no placeholder name may hold.
RECURSIVE placeholderEnd(_, _)
placeholderEnd(s, j) ==
  IF j > Len(s) \/ s[j] = "}" THEN j
  ELSE IF ~isAllowedPlaceholderChar(s[j]) THEN 0 - j
  ELSE placeholderEnd(s, j + 1)

\* The scanning loop from index i on, with the placeholder names found so
\* far; it ends with an error or with the set of the names found.
RECURSIVE templateScan(_, _, _)
templateScan(s, i, found) ==
  IF i > Len(s) THEN [err |-> NoErr, found |-> found]
  ELSE IF isAllowedPathChar(s[i]) THEN templateScan(s, i + 1, found)
  ELSE IF s[i] = "$"
       THEN IF i + 1 > Len(s) THEN [err |-> Panic, found |-> found]
            ELSE IF s[i + 1] # "{" THEN [err |-> TemplateErr(i + 1), found |-> found]
            ELSE LET j == placeholderEnd(s, i + 2)
                 IN IF j < 0 THEN [err |-> TemplateErr(0 - j), found |-> found]
                    ELSE IF j > Len(s) THEN [err |-> Panic, found |-> found]
                    ELSE LET name == SubSeq(s, i + 2, j - 1)
                         IN IF name \notin allowedPlaceholders
                            THEN [err |-> TemplateErr(i), found |-> found]
                            ELSE templateScan(s, j + 1, found \cup {name})
  ELSE [err |-> TemplateErr(i), found |-> found]

\* An end of validateTemplate that does not ask for every placeholder.
templateResultAnyFound(s, r) ==
  IF r.err # NoErr THEN [tmpl |-> <<>>, err |-> r.err]
  ELSE [tmpl |-> s, err |-> NoErr]

\* The end of validateTemplate, on the outcome r of the scanning loop:
\* "Ensure all required placeholders were found".
templateResult(s, r) ==
  IF r.err # NoErr THEN [tmpl |-> <<>>, err |-> r.err]
  ELSE IF r.found # allowedPlaceholders
       THEN [tmpl |-> <<>>, err |-> TemplateErr(0)]
       ELSE [tmpl |-> s, err |-> NoErr]

validateTemplate(s) ==
  IF s = <<>> THEN [tmpl |-> <<>>, err |-> TemplateErr(0)]
  ELSE templateResult(s, templateScan(s, 1, {}))

(***************************************************************************)
(* options.go: validateFilterString (1-based indices as above).            *)
(***************************************************************************)
isAlphaNum(b) == b \in LowerChars \cup UpperChars \cup DigitChars

FilterErr(at) == [kind |-> "MalformedFilter", at |-> at]

\* "for i < len(s) && isAlphaNum(s[i])": the index where the loop stops.
RECURSIVE skipAlphaNum(_, _)
skipAlphaNum(s, i) ==
  IF i <= Len(s) /\ isAlphaNum(s[i]) THEN skipAlphaNum(s, i + 1) ELSE i

\* A component in which letters and digits may follow a '*'.
componentEndLoose(s, i) ==
  IF i <= Len(s)
  THEN IF s[i] = "*" THEN skipAlphaNum(s, i + 1) ELSE skipAlphaNum(s, i)
  ELSE i

\* One component (GOOS or GOARCH) starting at i: the index after it.
componentEnd(s, i) ==
  IF i <= Len(s)
  THEN IF s[i] = "*" THEN i + 1 ELSE skipAlphaNum(s, i)
  ELSE i

\* The outer loop from index i on, with the filters parsed so far.
RECURSIVE filterScan(_, _, _)
filterScan(s, i, out) ==
  IF i > Len(s) THEN [filters |-> out, err |-> NoErr]
  ELSE
    LET osEnd == componentEnd(s, i)
    IN IF osEnd = i THEN [filters |-> <<>>, err |-> FilterErr(i)]
       ELSE IF osEnd > Len(s) \/ s[osEnd] # "/"
            THEN [filters |-> <<>>, err |-> FilterErr(osEnd)]
       ELSE
         LET goos == SubSeq(s, i, osEnd - 1)
             archStart == osEnd + 1
             archEnd == componentEnd(s, archStart)
         IN IF archEnd = archStart THEN [filters |-> <<>>, err |-> FilterErr(archStart)]
            ELSE
              LET goarch == SubSeq(s, archStart, archEnd - 1)
                  out2 == Append(out, goos \o sSlash \o goarch)
              IN IF archEnd = Len(s) + 1 THEN [filters |-> out2, err |-> NoErr]
                 ELSE IF s[archEnd] # "," THEN [filters |-> <<>>, err |-> FilterErr(archEnd)]
                 ELSE IF archEnd + 1 = Len(s) + 1
                      THEN [filters |-> <<>>, err |-> FilterErr(archEnd)]
                      ELSE filterScan(s, archEnd + 1, out2)

\* The end of validateFilterString, on the outcome r of the loop.
filterResult(r) ==
  IF r.err # NoErr THEN r
  ELSE IF Len(r.filters) = 0 THEN [filters |-> <<>>, err |-> FilterErr(0)]
  ELSE r

validateFilterString(s) == filterResult(filterScan(s, 1, <<>>))

(***************************************************************************)
(* options.go: scanBuildPath.  The reader's text is given as its lines, in *)
(* order (bufio.Scanner); opts.Output = <<>> is the unset template.        *)
(***************************************************************************)
EmptyOptions == [Output |-> <<>>, Include |-> <<>>, Exclude |-> <<>>]

ScanErr(kind, src, line) == [kind |-> kind, source |-> src, line |-> line]

\* The output= branch once validateTemplate has returned parsed.
setOutput(opts, parsed, path, i) ==
  IF parsed.err = Panic THEN [opts |-> EmptyOptions, err |-> Panic]
  ELSE IF parsed.err # NoErr
       THEN [opts |-> EmptyOptions, err |-> ScanErr("InvalidTemplate", path, i)]
       ELSE [opts |-> [opts EXCEPT !.Output = parsed.tmpl], err |-> NoErr]

\* The include= branch once validateFilterString has returned r.
setInclude(opts, r, path, i) ==
  IF r.err # NoErr
  THEN [opts |-> EmptyOptions, err |-> ScanErr("MalformedFilter", path, i)]
  ELSE [opts |-> [opts EXCEPT !.Include = r.filters], err |-> NoErr]

\* The exclude= branch once validateFilterString has returned r.
setExclude(opts, r, path, i) ==
  IF r.err # NoErr
  THEN [opts |-> EmptyOptions, err |-> ScanErr("MalformedFilter", path, i)]
  ELSE [opts |-> [opts EXCEPT !.Exclude = r.filters], err |-> NoErr]

\* A loop body that passes over a directive with an unknown key.
scanTrimmedLenient(opts, line, path, i) ==
  IF ~HasPrefix(line, sMarker) THEN [opts |-> opts, err |-> NoErr]
  ELSE IF HasPrefix(line, sMarker \o sKeyOutput)
  THEN IF Len(opts.Output) > 0
       THEN [opts |-> EmptyOptions, err |-> ScanErr("DuplicateOutput", path, i)]
       ELSE setOutput(opts, validateTemplate(TrimPrefix(line, sMarker \o sKeyOutput)),
                      path, i)
  ELSE IF HasPrefix(line, sMarker \o sKeyInclude)
  THEN setInclude(opts, validateFilterString(TrimPrefix(line, sMarker \o sKeyInclude)),
                  path, i)
  ELSE IF HasPrefix(line, sMarker \o sKeyExclude)
  THEN setExclude(opts, validateFilterString(TrimPrefix(line, sMarker \o sKeyExclude)),
                  path, i)
  ELSE [opts |-> opts, err |-> NoErr]

\* The body of the loop on the trimmed line number i (1-based, as
\* reported) and the options read so far: the options after it, or an error.
scanTrimmed(opts, line, path, i) ==
  IF ~HasPrefix(line, sMarker) THEN [opts |-> opts, err |-> NoErr]
  ELSE IF HasPrefix(line, sMarker \o sKeyOutput)
  THEN IF Len(opts.Output) > 0
       THEN [opts |-> EmptyOptions, err |-> ScanErr("DuplicateOutput", path, i)]
       ELSE setOutput(opts, validateTemplate(TrimPrefix(line, sMarker \o sKeyOutput)),
                      path, i)
  ELSE IF HasPrefix(line, sMarker \o sKeyInclude)
  THEN setInclude(opts, validateFilterString(TrimPrefix(line, sMarker \o sKeyInclude)),
                  path, i)
  ELSE IF HasPrefix(line, sMarker \o sKeyExclude)
  THEN setExclude(opts, validateFilterString(TrimPrefix(line, sMarker \o sKeyExclude)),
                  path, i)
  ELSE [opts |-> EmptyOptions, err |-> ScanErr("UnknownDirective", path, i)]

scanLine(opts, text, path, i) == scanTrimmed(opts, TrimSpace(text), path, i)

\* The loop "for scanner.Scan()" from line i on; r is the outcome of line i.
RECURSIVE scanLines(_, _, _, _)
RECURSIVE scanRest(_, _, _, _)
scanRest(r, lines, path, i) ==
  IF r.err # NoErr THEN r ELSE scanLines(r.opts, lines, path, i + 1)

scanLines(opts, lines, path, i) ==
  IF i > Len(lines) THEN [opts |-> opts, err |-> NoErr]
  ELSE scanRest(scanLine(opts, lines[i], path, i), lines, path, i)

scanBuildPath(lines, path) == scanLines(EmptyOptions, lines, path, 1)

(***************************************************************************)
(* options.go: scanBuildDir.  sources is the list of the files to scan;    *)
(* a file is [exists, lines], and the index of a file stands for its path. *)
(***************************************************************************)
\* A merge that puts the filters of the later file first.
mergeOptionsNewestFirst(opts, r, k) ==
  IF r.err # NoErr THEN [opts |-> EmptyOptions, err |-> r.err]
  ELSE IF Len(opts.Output) > 0 /\ Len(r.opts.Output) > 0
  THEN [opts |-> EmptyOptions, err |-> ScanErr("DuplicateOutput", k, 0)]
  ELSE [opts |-> [Output |-> IF Len(r.opts.Output) > 0
                              THEN r.opts.Output ELSE opts.Output,
                  Include |-> r.opts.Include \o opts.Include,
                  Exclude |-> r.opts.Exclude \o opts.Exclude],
        err |-> NoErr]

\* A merge in which the output template of a later file replaces the
\* one already set.
mergeOptionsLastOutput(opts, r, k) ==
  IF r.err # NoErr THEN [opts |-> EmptyOptions, err |-> r.err]
  ELSE [opts |-> [Output |-> IF Len(r.opts.Output) > 0
                              THEN r.opts.Output ELSE opts.Output,
                  Include |-> opts.Include \o r.opts.Include,
                  Exclude |-> opts.Exclude \o r.opts.Exclude],
        err |-> NoErr]

\* The merge of the options topts of file k into opts: r is what
\* scanBuildPath returned.
mergeOptions(opts, r, k) ==
  IF r.err # NoErr THEN [opts |-> EmptyOptions, err |-> r.err]
  ELSE IF Len(opts.Output) > 0 /\ Len(r.opts.Output) > 0
  THEN [opts |-> EmptyOptions, err |-> ScanErr("DuplicateOutput", k, 0)]
  ELSE [opts |-> [Output |-> IF Len(r.opts.Output) > 0
                              THEN r.opts.Output ELSE opts.Output,
                  Include |-> opts.Include \o r.opts.Include,
                  Exclude |-> opts.Exclude \o r.opts.Exclude],
        err |-> NoErr]

\* The body of the loop over the sources for file number k.
mergeSource(opts, file, k) ==
  IF ~file.exists THEN [opts |-> EmptyOptions, err |-> ScanErr("open", k, 0)]
  ELSE mergeOptions(opts, scanBuildPath(file.lines, k), k)

RECURSIVE mergeSources(_, _, _)
RECURSIVE mergeRest(_, _, _)
mergeRest(r, sources, k) ==
  IF r.err # NoErr THEN r ELSE mergeSources(r.opts, sources, k + 1)

mergeSources(opts, sources, k) ==
  IF k > Len(sources) THEN [opts |-> opts, err |-> NoErr]
  ELSE mergeRest(mergeSource(opts, sources[k], k), sources, k)

\* Defaults that put the wildcard in front of whatever was declared.
applyDefaultsWildcardFirst(opts) ==
  [Output |-> IF Len(opts.Output) = 0 THEN sDefaultOutput ELSE opts.Output,
   Include |-> <<sAll>> \o opts.Include,
   Exclude |-> opts.Exclude \o <<sAndroidAll, sIosAll>>]

\* Defaults without the two fixed exclusions.
applyDefaultsNoFixedExcludes(opts) ==
  [Output |-> IF Len(opts.Output) = 0 THEN sDefaultOutput ELSE opts.Output,
   Include |-> IF Len(opts.Include) = 0 THEN <<sAll>> ELSE opts.Include,
   Exclude |-> opts.Exclude]

\* The defaults applied after the loop.
applyDefaults(opts) ==
  [Output |-> IF Len(opts.Output) = 0 THEN sDefaultOutput ELSE opts.Output,
   Include |-> IF Len(opts.Include) = 0 THEN <<sAll>> ELSE opts.Include,
   Exclude |-> opts.Exclude \o <<sAndroidAll, sIosAll>>]

\* The end of scanBuildDir, on the outcome r of the loop.
scanResult(r) ==
  IF r.err # NoErr THEN r ELSE [opts |-> applyDefaults(r.opts), err |-> NoErr]

scanBuildDir(sources) == scanResult(mergeSources(EmptyOptions, sources, 1))

(***************************************************************************)
(* The target universe: the output of `go tool dist list`, an external     *)
(* collaborator.  The modelled toolchain lists the first NumDistTargets    *)
(* entries of this list, in the order the toolchain prints them.           *)
(***************************************************************************)
NumDistTargets == 7

DistList ==
  << Pair(sAndroid, sArm64), Pair(sDarwin, sAmd64), Pair(sDarwin, sArm64),
     Pair(sIos, sArm64), Pair(sLinux, sAmd64), Pair(sLinux, sArm64),
     Pair(sWindows, sAmd64), Pair(sWindows, sArm64), Pair(sWindows, s386) >>

GoToolDistList ==
  SubSeq(DistList, 1, IF NumDistTargets < Len(DistList) THEN NumDistTargets ELSE Len(DistList))

(***************************************************************************)
(* Resolver specification: buildTargetList applied, twice in a row, to     *)
(* bounded configurations and universes held in the caller's memory.       *)
(***************************************************************************)
VARIABLES
  rTargets,   \* the caller's universe slice (its elements, in order)
  rOpts,      \* the caller's options value
  rTargets0,  \* the universe as first given
  rOpts0,     \* the options as first given
  rResults    \* the results of the calls made so far, in call order

resolveVars == <<rTargets, rOpts, rTargets0, rOpts0, rResults>>

MaxFilters == 2

FilterPool ==
  { Pair(sStar, sStar), Pair(sLinux, sStar), Pair(sStar, sArm64),
    Pair(sWindows, sAmd64), Pair(sDarwin, s386) }

SeqsUpTo(S, n) == UNION {[1..k -> S] : k \in 0..n}

\* The universe of TestBuildTargetList (not in alphabetical order), the
\* toolchain's list, and a one-target universe.
Universes ==
  { << Pair(sWindows, sAmd64), Pair(sWindows, sArm64),
       Pair(sLinux, sAmd64), Pair(sLinux, sArm64) >>,
    GoToolDistList,
    << Pair(sLinux, sArm64) >> }

ResolveInputs ==
  /\ rTargets0 \in Universes
  /\ rOpts0 \in [Include : SeqsUpTo(FilterPool, MaxFilters),
                 Exclude : SeqsUpTo(FilterPool, MaxFilters)]
  /\ rTargets = rTargets0
  /\ rOpts = rOpts0
  /\ rResults = <<>>

ResolveIdle ==
  /\ rTargets0 = <<>>
  /\ rOpts0 = [Include |-> <<>>, Exclude |-> <<>>]
  /\ rTargets = rTargets0
  /\ rOpts = rOpts0
  /\ rResults = <<>>

\* One call targets, err := opts.buildTargetList(targets) by the caller.
ResolveCall ==
  /\ Len(rResults) < 2
  /\ rResults' = Append(rResults, buildTargetList(rOpts, rTargets))
  /\ rTargets' = filterSliceArg(rTargets,
                   [t \in Range(rTargets) |-> includeKeep(rOpts, t)])
  /\ UNCHANGED <<rOpts, rTargets0, rOpts0>>


(***************************************************************************)
(* Single calls of the parsing functions: one call of filter.matches,      *)
(* validateFilterString, validateTemplate, scanBuildDir or of the          *)
(* rendering of one output path, on an argument drawn from a bounded set.  *)
(***************************************************************************)
VARIABLES
  cFn,    \* the function called
  cArg,   \* its argument
  cRet    \* <<>> before the call returns, then <<the value returned>>

callVars == <<cFn, cArg, cRet>>

CallIdle ==
  /\ cFn = "none"
  /\ cArg = <<>>
  /\ cRet = <<>>


(***************************************************************************)
(* The build dispatcher: doMultibuild and runBuild.                        *)
(***************************************************************************)
VARIABLES
  args,        \* cliArgs, as buildArgs returned them
  environ,     \* the caller's process environment
  srcFiles,    \* the package's source files on disk, in `go list` order
  cfgFormat,   \* the requested output formats (opts.Format)
  mpc,         \* where the main goroutine is
  run,         \* "running", "returned" (main returned), "exited" (os.Exit) or "crashed" (panic)
  exitStatus,  \* the process exit status once the run has ended
  cause,       \* what ended the run early
  opts,        \* the scanned options
  targets,     \* the resolved target list
  task,        \* per launched goroutine: the arguments bound at the go statement
  tpc,         \* per target: where its goroutine is
  result,      \* per target: the outcome of its compiler invocation
  fmtIdx,      \* per target: the formats of opts.Format handled so far
  removed,     \* per target: os.Remove(outBin) has been called
  rmErr,       \* per target: that call returned an error
  sem,         \* number of tokens in the channel sem
  wg,          \* the WaitGroup counter
  invoked      \* the bag of compiler invocations started so far

dispVars == <<args, environ, srcFiles, cfgFormat, mpc, run, exitStatus, cause, opts,
              targets, task, tpc, result, fmtIdx, removed, rmErr, sem, wg, invoked>>

vars == <<resolveVars, callVars, dispVars>>

\* sem := make(chan struct{}, 4)
SemCap == 4

\* A send on sem that never blocks.
semCanSendAlways(n) == TRUE

\* A send on sem proceeds only while the channel holds fewer than cap tokens.
semCanSend(n) == n < SemCap

\* A receive that leaves the token in the channel.
semRecvKeepsToken(n) == n

\* "<-sem": a receive takes one token out of the channel.
semRecv(n) == n - 1

\* os.Getenv / os.LookupEnv on the caller's environment.
Getenv(name) == IF environ[name].set THEN environ[name].val ELSE <<>>
LookupEnv(name) == environ[name].set

\* The placeholders rendered for one target (doMultibuild, the loop body).
formattedOutput(o, a) == ReplaceAll(o.Output, sPhTarget, a.output)

\* A rendering that leaves ${GOARCH} as it is.
renderOutOsOnly(o, a, goos, goarch) ==
  ReplaceAll(formattedOutput(o, a), sPhGoos, goos)

renderOut(o, a, goos, goarch) ==
  ReplaceAll(ReplaceAll(formattedOutput(o, a), sPhGoos, goos), sPhGoarch, goarch)

\* The closure arguments of the goroutine launched for a target, and its
\* output paths: ".exe" is appended for windows.
taskRecord(a, goos, goarch, out, outBin) ==
  [goos |-> goos, goarch |-> goarch, out |-> out, outBin |-> outBin,
   buildArgs |-> <<sDashO, outBin>> \o a.goBuildArgs]

taskWithOut(a, goos, goarch, out) ==
  taskRecord(a, goos, goarch, out, IF goos = sWindows THEN out \o sExe ELSE out)

taskOfParts(o, a, parts) ==
  taskWithOut(a, parts[1], parts[2], renderOut(o, a, parts[1], parts[2]))

\* The loop body with every goroutine given the first target.
taskOfFirst(o, a, ts, i) == taskOfParts(o, a, SplitSlash(ts[1]))

\* The loop body for the i-th target of the list ts.
taskOf(o, a, ts, i) == taskOfParts(o, a, SplitSlash(ts[i]))

\* The outBin of every goroutine launched by the loop over the list ts.
outBins(o, a, ts) == [i \in 1..Len(ts) |-> taskOf(o, a, ts, i).outBin]

NoTask == [goos |-> <<>>, goarch |-> <<>>, out |-> <<>>, outBin |-> <<>>,
           buildArgs |-> <<>>]

\* A runBuild that takes an empty CGO_ENABLED for an undefined one.
buildCmdEmptyIsUnset(cmdArgs, goos, goarch) ==
  [args |-> cmdArgs,
   env |-> IF goos # <<>>
           THEN << <<"GOOS", goos>>, <<"GOARCH", goarch>> >>
                \o (IF Getenv("CGO_ENABLED") = <<>>
                    THEN << <<"CGO_ENABLED", <<"0">> >> >> ELSE <<>>)
           ELSE <<>>]

\* A runBuild that forces CGO_ENABLED=0 whatever goos is.
buildCmdForceCgo(cmdArgs, goos, goarch) ==
  [args |-> cmdArgs,
   env |-> (IF goos # <<>>
            THEN << <<"GOOS", goos>>, <<"GOARCH", goarch>> >> ELSE <<>>)
           \o (IF ~LookupEnv("CGO_ENABLED")
               THEN << <<"CGO_ENABLED", <<"0">> >> >> ELSE <<>>)]

\* runBuild: the command started: its arguments after "go build" and the
\* entries appended to the copy of the caller's environment.
buildCmd(cmdArgs, goos, goarch) ==
  [args |-> cmdArgs,
   env |-> IF goos # <<>>
           THEN << <<"GOOS", goos>>, <<"GOARCH", goarch>> >>
                \o (IF ~LookupEnv("CGO_ENABLED")
                    THEN << <<"CGO_ENABLED", <<"0">> >> >> ELSE <<>>)
           ELSE <<>>]

\* fatal(): the message is printed and the process exits with status 1.
fatalStatus == 1

\* An error check that lets every error through.
isFatalNever(err) == FALSE

\* "if err != nil { fatal(...) }" after scanBuildDir and buildTargetList.
isFatal(err) == err # NoErr

\* os.Exit(status), from whichever goroutine: the process ends at once.
Exit(status, why) ==
  /\ run' = "exited"
  /\ exitStatus' = status
  /\ cause' = why

\* runBuild with the error of cmd.Run dropped.
runBuildFailedIgnored(r) == FALSE

\* runBuild: "if err := cmd.Run(); err != nil { os.Exit(1) }".
runBuildFailed(r) == r = "fail"

Tasks == 1..Len(targets)

\* The formats of the list after position k that write an archive.
archiveAfter(k) == {j \in (k + 1)..Len(cfgFormat) : cfgFormat[j] # "raw"}

nextArchive(k) ==
  IF archiveAfter(k) = {} THEN 0
  ELSE CHOOSE j \in archiveAfter(k) : \A j2 \in archiveAfter(k) : j <= j2

\* !slices.Contains(opts.Format, formatRaw)
rawUnwanted == \A j \in 1..Len(cfgFormat) : cfgFormat[j] # "raw"

\* The goroutine with the removal of the raw binary ahead of the format loop.
afterBuildRemoveFirst(k, rm) ==
  IF rawUnwanted /\ ~rm THEN "remove"
  ELSE IF nextArchive(k) # 0 THEN "archive"
  ELSE "release"

\* The goroutine with "<-sem" right after runBuild.
afterBuildReleaseFirst(k, rm) == "release"

\* What the goroutine does next once runBuild has returned: the next
\* archive of the format loop, the removal of the raw binary, or "<-sem".
afterBuild(k, rm) ==
  IF nextArchive(k) # 0 THEN "archive"
  ELSE IF rawUnwanted /\ ~rm THEN "remove"
  ELSE "release"

\* An os.Remove whose error ends the process.
removeFatalOnError(failed) == failed

\* "err := os.Remove(outBin); if err != nil { fmt.Fprintf(os.Stderr, ...) }":
\* the error is printed as a warning and the goroutine goes on.
removeFatal(failed) == FALSE

\* A wg.Wait() that returns whatever the counter is.
waitDoneNoWait(n) == TRUE

\* wg.Wait() returns once the counter is zero.
waitDone(n) == n = 0

(***************************************************************************)
(* Inputs of a run.                                                        *)
(***************************************************************************)
Unset == [set |-> FALSE, val |-> <<>>]
SetTo(v) == [set |-> TRUE, val |-> v]

Line(key, val) == sMarker \o key \o val

sApp == <<"a", "p", "p">>
sDashV == <<"-", "v">>
sBinTemplate ==
  <<"b", "i", "n", "/">> \o sPhGoos \o sSlash \o sPhGoarch \o sSlash \o sPhTarget
sPackageLine == <<"p", "a", "c", "k", "a", "g", "e", " ", "m", "a", "i", "n">>

File(lines) == [exists |-> TRUE, lines |-> lines]
MissingFile == [exists |-> FALSE, lines |-> <<>>]


\* Source file sets: what `go list` names, or the file given on the command line.
SrcPlain == << File(<<sPackageLine>>) >>
SrcLinux == << File(<<Line(sKeyInclude, Pair(sLinux, sStar)), sPackageLine>>) >>
SrcTwoFiles ==
  << File(<< <<" ", "\t">> \o Line(sKeyInclude, Pair(sWindows, sStar)),
             Line(sKeyOutput, sBinTemplate) >>),
     File(<< sPackageLine,
             Line(sKeyInclude, Pair(sDarwin, sAmd64)),
             Line(sKeyExclude, Pair(sStar, sArm64)) >>) >>
SrcBadKey == << File(<<sPackageLine, Line(<<"o", "o", "p", "s", "=">>, sApp)>>) >>
SrcBadFilter == << File(<<Line(sKeyInclude, <<"l", "i", "*", "/", "*">>)>>) >>
SrcTwoOutputs ==
  << File(<<Line(sKeyOutput, sBinTemplate), Line(sKeyInclude, Pair(sStar, sAmd64))>>),
     File(<<Line(sKeyOutput, sDefaultOutput)>>) >>
SrcDollar == << File(<<Line(sKeyOutput, <<"x", "$">>)>>) >>
SrcMissing == << MissingFile >>
SrcAndroid == << File(<<Line(sKeyInclude, Pair(sAndroid, sArm64))>>) >>
SrcExcluded ==
  << File(<<Line(sKeyInclude, Pair(sLinux, sStar)), Line(sKeyExclude, Pair(sLinux, sStar))>>) >>

SourceSets ==
  { SrcLinux, SrcTwoFiles, SrcBadKey, SrcBadFilter, SrcTwoOutputs, SrcDollar,
    SrcMissing, SrcAndroid, SrcExcluded }

EnvUnset == [GOOS |-> Unset, GOARCH |-> Unset, CGO_ENABLED |-> Unset]

Environs ==
  { EnvUnset,
    [EnvUnset EXCEPT !.GOOS = SetTo(sLinux)],
    [EnvUnset EXCEPT !.GOARCH = SetTo(sArm64)],
    [EnvUnset EXCEPT !.GOOS = SetTo(<<>>)],
    [EnvUnset EXCEPT !.CGO_ENABLED = SetTo(<<"1">>)],
    [EnvUnset EXCEPT !.CGO_ENABLED = SetTo(<<>>)] }

ArgsPlain ==
  [goBuildArgs |-> <<>>, output |-> sApp, sources |-> <<>>,
   displayConfig |-> FALSE, displayTargets |-> FALSE]

ArgsSets ==
  { ArgsPlain,
    [ArgsPlain EXCEPT !.goBuildArgs = <<sDashV>>],
    [ArgsPlain EXCEPT !.sources = <<1>>],
    [ArgsPlain EXCEPT !.goBuildArgs = <<<<"-", "-", "m", "c">>>>, !.displayConfig = TRUE],
    [ArgsPlain EXCEPT !.goBuildArgs = <<<<"-", "-", "m", "t">>>>, !.displayTargets = TRUE] }

Formats == { <<"raw">>, <<"raw", "zip">>, <<"tgz">> }
ManyTargetFormats == { <<"raw">> }

\* The state of the dispatcher before doMultibuild has done anything.
DispStart ==
  /\ mpc = "scan"
  /\ run = "running"
  /\ exitStatus = 0
  /\ cause = "none"
  /\ opts = EmptyOptions
  /\ targets = <<>>
  /\ task = <<>>
  /\ tpc = <<>>
  /\ result = <<>>
  /\ fmtIdx = <<>>
  /\ removed = <<>>
  /\ rmErr = <<>>
  /\ sem = 0
  /\ wg = 0
  /\ invoked = EmptyBag

\* Runs of few targets under every combination of the inputs, and the run
\* of the whole default target list under the plain arguments.
DispInputs ==
  \/ /\ srcFiles \in SourceSets
     /\ environ \in Environs
     /\ args \in ArgsSets
     /\ cfgFormat \in Formats
  \/ /\ srcFiles = SrcPlain
     /\ environ = EnvUnset
     /\ args = ArgsPlain
     /\ cfgFormat \in ManyTargetFormats

DispIdle ==
  /\ srcFiles = <<>>
  /\ environ = EnvUnset
  /\ args = ArgsPlain
  /\ cfgFormat = <<"raw">>
  /\ mpc = "off"
  /\ run = "off"
  /\ exitStatus = 0
  /\ cause = "none"
  /\ opts = EmptyOptions
  /\ targets = <<>>
  /\ task = <<>>
  /\ tpc = <<>>
  /\ result = <<>>
  /\ fmtIdx = <<>>
  /\ removed = <<>>
  /\ rmErr = <<>>
  /\ sem = 0
  /\ wg = 0
  /\ invoked = EmptyBag

Init == DispInputs /\ DispStart /\ ResolveIdle /\ CallIdle

Running == run = "running"

inputVars == <<args, environ, srcFiles, cfgFormat>>
taskVars == <<task, tpc, result, fmtIdx, removed, rmErr, sem, wg, invoked>>
endVars == <<run, exitStatus, cause>>

(***************************************************************************)
(* doMultibuild, the main goroutine.                                       *)
(***************************************************************************)
\* The sources to scan: those named on the command line, or `go list`'s.
sourcesOf(a, files) ==
  IF Len(a.sources) = 0 THEN files
  ELSE [k \in 1..Len(a.sources) |-> files[a.sources[k]]]

\* sourcesList fails (the toolchain's listing is an external collaborator).
SourcesFail ==
  /\ Running /\ mpc = "scan"
  /\ Len(args.sources) = 0
  /\ Exit(fatalStatus, "sources")
  /\ UNCHANGED <<inputVars, mpc, opts, targets, taskVars, resolveVars, callVars>>

\* scanBuildDir returns r: an error is fatal, a panic ends the process.
ScanReturns(r) ==
  \/ /\ r.err = Panic
     /\ run' = "crashed" /\ exitStatus' = 2 /\ cause' = "panic"
     /\ UNCHANGED <<mpc, opts>>
  \/ /\ r.err # Panic /\ isFatal(r.err)
     /\ Exit(fatalStatus, "scan")
     /\ UNCHANGED <<mpc, opts>>
  \/ /\ r.err # Panic /\ ~isFatal(r.err)
     /\ opts' = r.opts
     /\ mpc' = "resolve"
     /\ UNCHANGED endVars

Scan ==
  /\ Running /\ mpc = "scan"
  /\ ScanReturns(scanBuildDir(sourcesOf(args, srcFiles)))
  /\ UNCHANGED <<inputVars, targets, taskVars, resolveVars, callVars>>

\* targetList fails (`go tool dist list` is an external collaborator).
TargetsFail ==
  /\ Running /\ mpc = "resolve"
  /\ Exit(fatalStatus, "targets")
  /\ UNCHANGED <<inputVars, mpc, opts, targets, taskVars, resolveVars, callVars>>

\* buildTargetList returns r: an error is fatal.
ResolveReturns(r) ==
  \/ /\ isFatal(r.err)
     /\ Exit(fatalStatus, "resolve")
     /\ UNCHANGED <<mpc, targets, task, tpc, result, fmtIdx, removed, rmErr>>
  \/ /\ ~isFatal(r.err)
     /\ targets' = r.targets
     /\ task' = [t \in 1..Len(r.targets) |-> NoTask]
     /\ tpc' = [t \in 1..Len(r.targets) |-> "idle"]
     /\ result' = [t \in 1..Len(r.targets) |-> "none"]
     /\ fmtIdx' = [t \in 1..Len(r.targets) |-> 0]
     /\ removed' = [t \in 1..Len(r.targets) |-> FALSE]
     /\ rmErr' = [t \in 1..Len(r.targets) |-> FALSE]
     /\ mpc' = "mode"
     /\ UNCHANGED endVars

Resolve ==
  /\ Running /\ mpc = "resolve"
  /\ ResolveReturns(buildTargetList(opts, GoToolDistList))
  /\ UNCHANGED <<inputVars, opts, sem, wg, invoked, resolveVars, callVars>>

\* The introspection flags, then the choice between pass-through and fan-out.
Mode ==
  /\ Running /\ mpc = "mode"
  /\ \/ /\ args.displayConfig
        /\ Exit(0, "displayConfig")
        /\ UNCHANGED mpc
     \/ /\ ~args.displayConfig /\ args.displayTargets
        /\ Exit(0, "displayTargets")
        /\ UNCHANGED mpc
     \/ /\ ~args.displayConfig /\ ~args.displayTargets
        /\ mpc' = IF Getenv("GOOS") # <<>> \/ Getenv("GOARCH") # <<>>
                  THEN "passthrough" ELSE "launch"
        /\ UNCHANGED endVars
  /\ UNCHANGED <<inputVars, opts, targets, taskVars, resolveVars, callVars>>

\* runBuild(args.goBuildArgs, "", "") in the main goroutine: the command starts.
PassStart ==
  /\ Running /\ mpc = "passthrough"
  /\ invoked' = invoked (+) SetToBag({buildCmd(args.goBuildArgs, <<>>, <<>>)})
  /\ mpc' = "ptbuild"
  /\ UNCHANGED <<inputVars, endVars, opts, targets, task, tpc, result, fmtIdx,
                 removed, rmErr, sem, wg, resolveVars, callVars>>

\* ... and cmd.Run returns: a failure exits, a success returns from main.
PassDone ==
  /\ Running /\ mpc = "ptbuild"
  /\ \E r \in {"ok", "fail"} :
       IF runBuildFailed(r)
       THEN Exit(1, "build") /\ UNCHANGED mpc
       ELSE run' = "returned" /\ mpc' = "end" /\ UNCHANGED <<exitStatus, cause>>
  /\ UNCHANGED <<inputVars, opts, targets, taskVars, resolveVars, callVars>>

\* One iteration of "for _, t := range targets": wg.Add(1) and the go statement.
nextLaunch == CHOOSE i \in Tasks : tpc[i] = "idle" /\ \A j \in Tasks : tpc[j] = "idle" => i <= j

LaunchEnabled ==
  /\ Running /\ mpc = "launch"
  /\ \E i \in Tasks : tpc[i] = "idle"

Launch ==
  /\ LaunchEnabled
  /\ LET i == nextLaunch
     IN /\ task' = [task EXCEPT ![i] = taskOf(opts, args, targets, i)]
        /\ tpc' = [tpc EXCEPT ![i] = "waiting"]
        /\ wg' = wg + 1
  /\ UNCHANGED <<inputVars, endVars, mpc, opts, targets, result, fmtIdx, removed, rmErr,
                 sem, invoked, resolveVars, callVars>>

\* wg.Wait() returns and so does main: the process ends with status 0.
WaitReturn ==
  /\ Running /\ mpc = "launch"
  /\ \A i \in Tasks : tpc[i] # "idle"
  /\ waitDone(wg)
  /\ run' = "returned"
  /\ mpc' = "end"
  /\ UNCHANGED <<inputVars, exitStatus, cause, opts, targets, taskVars, resolveVars, callVars>>

(***************************************************************************)
(* The goroutine of target t.                                              *)
(***************************************************************************)
\* "sem <- struct{}{}", then runBuild starts the compiler.
Acquire(t) ==
  /\ Running /\ tpc[t] = "waiting"
  /\ semCanSend(sem)
  /\ sem' = sem + 1
  /\ tpc' = [tpc EXCEPT ![t] = "building"]
  /\ invoked' = invoked (+) SetToBag({buildCmd(task[t].buildArgs, task[t].goos, task[t].goarch)})
  /\ UNCHANGED <<inputVars, endVars, mpc, opts, targets, task, result, fmtIdx,
                 removed, rmErr, wg, resolveVars, callVars>>

\* cmd.Run returns, with or without an error.
BuildDone(t) ==
  /\ Running /\ tpc[t] = "building"
  /\ \E r \in {"ok", "fail"} : result' = [result EXCEPT ![t] = r]
  /\ tpc' = [tpc EXCEPT ![t] = "built"]
  /\ UNCHANGED <<inputVars, endVars, mpc, opts, targets, task, fmtIdx, removed, rmErr,
                 sem, wg, invoked, resolveVars, callVars>>

\* "if err != nil { os.Exit(1) }"
BuildFailed(t) ==
  /\ Running /\ tpc[t] = "built"
  /\ runBuildFailed(result[t])
  /\ Exit(1, "build")
  /\ UNCHANGED <<inputVars, mpc, opts, targets, taskVars, resolveVars, callVars>>

PostBuild(t) == tpc[t] \in {"built", "archiving"} /\ ~runBuildFailed(result[t])

\* The next archive of the format loop is written, or an I/O step of it
\* fails: the failure is reported and os.Exit(1) is called.
Archive(t) ==
  /\ Running /\ PostBuild(t)
  /\ afterBuild(fmtIdx[t], removed[t]) = "archive"
  /\ \/ /\ fmtIdx' = [fmtIdx EXCEPT ![t] = nextArchive(fmtIdx[t])]
        /\ tpc' = [tpc EXCEPT ![t] = "archiving"]
        /\ UNCHANGED endVars
     \/ /\ Exit(1, "archive")
        /\ UNCHANGED <<fmtIdx, tpc>>
  /\ UNCHANGED <<inputVars, mpc, opts, targets, task, result, removed, rmErr, sem, wg,
                 invoked, resolveVars, callVars>>

\* os.Remove(outBin); a failure is only reported.
Remove(t) ==
  /\ Running /\ PostBuild(t)
  /\ afterBuild(fmtIdx[t], removed[t]) = "remove"
  /\ removed' = [removed EXCEPT ![t] = TRUE]
  /\ \E failed \in BOOLEAN :
       /\ rmErr' = [rmErr EXCEPT ![t] = failed]
       /\ \/ /\ removeFatal(failed)
             /\ Exit(1, "remove")
             /\ UNCHANGED tpc
          \/ /\ ~removeFatal(failed)
             /\ tpc' = [tpc EXCEPT ![t] = "archiving"]
             /\ UNCHANGED endVars
  /\ UNCHANGED <<inputVars, mpc, opts, targets, task, result, fmtIdx,
                 sem, wg, invoked, resolveVars, callVars>>

\* "<-sem"
Release(t) ==
  /\ Running /\ PostBuild(t)
  /\ afterBuild(fmtIdx[t], removed[t]) = "release"
  /\ sem' = semRecv(sem)
  /\ tpc' = [tpc EXCEPT ![t] = "released"]
  /\ UNCHANGED <<inputVars, endVars, mpc, opts, targets, task, result, fmtIdx,
                 removed, rmErr, wg, invoked, resolveVars, callVars>>

\* "wg.Done()"
Done(t) ==
  /\ Running /\ tpc[t] = "released"
  /\ wg' = wg - 1
  /\ tpc' = [tpc EXCEPT ![t] = "done"]
  /\ UNCHANGED <<inputVars, endVars, mpc, opts, targets, task, result, fmtIdx,
                 removed, rmErr, sem, invoked, resolveVars, callVars>>

\* The goroutine's function returns: the deferred Close calls of the
\* archives it wrote run now.
Return(t) ==
  /\ Running /\ tpc[t] = "done"
  /\ fmtIdx[t] # 0
  /\ tpc' = [tpc EXCEPT ![t] = "ended"]
  /\ UNCHANGED <<inputVars, endVars, mpc, opts, targets, task, result, fmtIdx,
                 removed, rmErr, sem, wg, invoked, resolveVars, callVars>>

Next ==
  \/ SourcesFail
  \/ Scan
  \/ TargetsFail
  \/ Resolve
  \/ Mode
  \/ PassStart
  \/ PassDone
  \/ Launch
  \/ WaitReturn
  \/ \E t \in Tasks : Acquire(t)
  \/ \E t \in Tasks : BuildDone(t)
  \/ \E t \in Tasks : BuildFailed(t)
  \/ \E t \in Tasks : Archive(t)
  \/ \E t \in Tasks : Remove(t)
  \/ \E t \in Tasks : Release(t)
  \/ \E t \in Tasks : Done(t)
  \/ \E t \in Tasks : Return(t)

Spec == Init /\ [][Next]_vars

\* A step of a task, or the return of wg.Wait().
TaskOrWaitStep ==
  \/ WaitReturn
  \/ \E t \in Tasks :
       \/ Acquire(t)
       \/ BuildDone(t)
       \/ BuildFailed(t)
       \/ Archive(t)
       \/ Remove(t)
       \/ Release(t)
       \/ Done(t)
       \/ Return(t)

\* The Go scheduler runs every runnable goroutine eventually, and the child
\* processes and the file operations are taken to end: while a task or
\* wg.Wait() can take a step, one is eventually taken, and the launching
\* loop does not stop while it has a target left (weak fairness of Launch,
\* with its enabling condition LaunchEnabled written out).
FairSpec ==
  /\ Spec
  /\ WF_vars(TaskOrWaitStep)
  /\ ([]<>(~LaunchEnabled) \/ []<><<Launch>>_vars)


(***************************************************************************)
(* The resolver specification.                                             *)
(***************************************************************************)
InitResolve == ResolveInputs /\ CallIdle /\ DispIdle

NextResolve == ResolveCall /\ UNCHANGED <<callVars, dispVars>>

SpecResolve == InitResolve /\ [][NextResolve]_vars


(***************************************************************************)
(* main.go: buildArgs and main                                             *)
(***************************************************************************)
sDash == <<"-">>
sDot == <<".">>
sDashOEq == <<"-", "o", "=">>
sDashH == <<"-", "h">>
sHelp == <<"-", "-", "h", "e", "l", "p">>
sMbConfiguration ==
  <<"-", "-", "m", "u", "l", "t", "i", "b", "u", "i", "l", "d", "-", "c", "o", "n", "f", "i", "g", "u", "r", "a", "t", "i", "o", "n">>
sMbTargets ==
  <<"-", "-", "m", "u", "l", "t", "i", "b", "u", "i", "l", "d", "-", "t", "a", "r", "g", "e", "t", "s">>
sMultibuild == <<"-", "-", "m", "u", "l", "t", "i", "b", "u", "i", "l", "d">>
sGoSuffix == <<".", "g", "o">>

\* strings.HasSuffix(s, suffix)
HasSuffix(s, suffix) ==
  Len(s) >= Len(suffix) /\ SubSeq(s, Len(s) - Len(suffix) + 1, Len(s)) = suffix

\* strings.TrimSuffix(s, suffix)
TrimSuffix(s, suffix) ==
  IF HasSuffix(s, suffix) THEN SubSeq(s, 1, Len(s) - Len(suffix)) ELSE s

\* The position of the last '/' of p; 0 when there is none.
LastSlash(p) ==
  IF \E i \in 1..Len(p) : p[i] = "/"
  THEN CHOOSE i \in 1..Len(p) : p[i] = "/" /\ \A j \in (i + 1)..Len(p) : p[j] # "/"
  ELSE 0

\* p without its trailing '/' characters.
RECURSIVE StripSlashes(_)
StripSlashes(p) ==
  IF p # <<>> /\ p[Len(p)] = "/" THEN StripSlashes(SubSeq(p, 1, Len(p) - 1)) ELSE p

\* filepath.Base(p): the last element of p; "." for the empty path and "/"
\* for a path of separators only.
Base(p) ==
  IF p = <<>> THEN sDot
  ELSE LET q == StripSlashes(p)
       IN IF q = <<>> THEN sSlash ELSE SubSeq(q, LastSlash(q) + 1, Len(q))

\* filepath.Dir(p): all but the last element of p, without trailing
\* separators; "." when nothing is left and "/" for the root.  The paths
\* given hold no "." or ".." elements and no doubled separators, so Clean
\* rewrites nothing else.
Dir(p) ==
  LET d == SubSeq(p, 1, LastSlash(p))
  IN IF d = <<>> THEN sDot
     ELSE IF StripSlashes(d) = <<>> THEN sSlash
     ELSE StripSlashes(d)

\* cliArgs{}
NoArgs ==
  [goBuildArgs |-> <<>>, output |-> <<>>, packagePath |-> <<>>, sources |-> <<>>,
   displayUsage |-> FALSE, displayConfig |-> FALSE, displayTargets |-> FALSE,
   verbose |-> FALSE]

ArgsErr(kind) == [kind |-> kind]
ErrUnrecognized == ArgsErr("unrecognized argument")
ErrMultiple == ArgsErr("cannot build multiple packages")

\* An argument without a leading '-' that replaces the package path seen so far.
setPackagePathLastWins(st, arg) == [st EXCEPT !.args.packagePath = arg]

\* "case !strings.HasPrefix(arg, "-")": a second package path is refused.
setPackagePath(st, arg) ==
  IF st.args.packagePath # <<>> THEN [st EXCEPT !.err = ErrMultiple]
  ELSE [st EXCEPT !.args.packagePath = arg]

\* One round of the loop over the arguments: the first case that applies.
argStep(st, arg) ==
  IF st.expectOutput THEN [st EXCEPT !.args.output = arg, !.expectOutput = FALSE]
  ELSE IF arg = sDashO THEN [st EXCEPT !.expectOutput = TRUE]
  ELSE IF HasPrefix(arg, sDashOEq)
    THEN [st EXCEPT !.args.output = TrimPrefix(arg, sDashOEq)]
  ELSE IF arg = sDashH \/ arg = sHelp THEN [st EXCEPT !.args.displayUsage = TRUE]
  ELSE IF arg = sDashV THEN [st EXCEPT !.args.verbose = TRUE]
  ELSE IF arg = sMbConfiguration THEN [st EXCEPT !.args.displayConfig = TRUE]
  ELSE IF arg = sMbTargets THEN [st EXCEPT !.args.displayTargets = TRUE]
  ELSE IF HasPrefix(arg, sMultibuild) THEN [st EXCEPT !.err = ErrUnrecognized]
  ELSE IF ~HasPrefix(arg, sDash) THEN setPackagePath(st, arg)
  ELSE st

\* The loop from argument i on; an error returns at once.
RECURSIVE argLoop(_, _, _)
argLoop(st, argv, i) ==
  IF i > Len(argv) \/ st.err # NoErr THEN st
  ELSE argLoop(argStep(st, argv[i]), argv, i + 1)

\* The defaults after the loop: the package path ".", and an output name
\* taken from the working directory, the source file or the package path.
\* exited: os.Getwd failed and fatal() ended the process.
argDefaults(a0, wd) ==
  LET a == IF a0.packagePath = <<>> THEN [a0 EXCEPT !.packagePath = sDot] ELSE a0
      t == a.packagePath
  IN IF a.output # <<>> THEN [args |-> a, err |-> NoErr, exited |-> FALSE]
     ELSE IF t = sDot
       THEN IF wd.ok
            THEN [args |-> [a EXCEPT !.output = Base(wd.path)], err |-> NoErr,
                  exited |-> FALSE]
            ELSE [args |-> a, err |-> NoErr, exited |-> TRUE]
     ELSE IF HasSuffix(t, sGoSuffix)
       THEN [args |-> [a EXCEPT !.packagePath = Dir(t),
                                !.output = TrimSuffix(Base(t), sGoSuffix),
                                !.sources = Append(a.sources, t)],
             err |-> NoErr, exited |-> FALSE]
     ELSE [args |-> [a EXCEPT !.output = Base(t)], err |-> NoErr, exited |-> FALSE]

\* buildArgs() over os.Args[1:] = argv, with os.Getwd() returning wd.
buildArgs(argv, wd) ==
  LET st == argLoop([args |-> [NoArgs EXCEPT !.goBuildArgs = argv],
                     expectOutput |-> FALSE, err |-> NoErr], argv, 1)
  IN IF st.err # NoErr THEN [args |-> NoArgs, err |-> st.err, exited |-> FALSE]
     ELSE argDefaults(st.args, wd)

\* main(): what the process does once buildArgs is through.  step is
\* "fatal" (the message is printed, then os.Exit(1)), "usage"
\* (displayUsageAndExit, os.Exit(0)) or "doMultibuild"; exit holds the exit
\* status when the process ends here.
main(argv, wd) ==
  LET r == buildArgs(argv, wd)
  IN IF r.exited \/ isFatal(r.err)
       THEN [step |-> "fatal", exit |-> <<fatalStatus>>, args |-> r.args, err |-> r.err]
     ELSE IF r.args.displayUsage
       THEN [step |-> "usage", exit |-> <<0>>, args |-> r.args, err |-> r.err]
     ELSE [step |-> "doMultibuild", exit |-> <<>>, args |-> r.args, err |-> r.err]


(***************************************************************************)
(* The single-call specification.  Strings are built from at most          *)
(* MaxTokens tokens, source files from at most MaxLines lines.             *)
(***************************************************************************)
MaxTokens == 4

MaxLines == 2

MaxArgs == 3

\* The call made and its argument.
CallInputs ==
  LET RECURSIVE Join(_)
      Join(ts) == IF ts = <<>> THEN <<>> ELSE Head(ts) \o Join(Tail(ts))
      Strings(tokens) == {Join(ts) : ts \in SeqsUpTo(tokens, MaxTokens)}
      \* filters and targets: whole names, wildcards, extra and missing '/'
      MatchStrings ==
        { Pair(sLinux, sAmd64), Pair(sLinux, sArm64), Pair(sDarwin, sAmd64),
          Pair(sLinux, sStar), Pair(sStar, sAmd64), sAll, sLinux, sStar,
          Pair(<<"l", "i", "n">>, sAmd64), Pair(<<"l", "i", "n", "*">>, sAmd64),
          Pair(sLinux, Pair(sAmd64, <<"v", "2">>)), Pair(sLinux, sAll),
          Pair(sStar, Pair(sAmd64, <<"v", "2">>)), <<>> }
      FilterTokens ==
        { Pair(sLinux, sStar), sAll, <<"a", "Z", "9">>, <<"*">>, <<"/">>, <<",">>,
          <<"-">> }
      TemplateTokens ==
        { sPhGoos, sPhGoarch, sPhTarget, <<"$">>, <<"$", "{", "G", "O">>, <<"}">>,
          <<"b", "i", "n", "/">>, <<".">> }
      Templates == {sDefaultOutput, sBinTemplate}
      BaseNames ==
        { sApp, sPhGoos, <<"x">> \o sPhGoarch, sPhTarget, sLinux, <<"$", "{">> }
      Lines ==
        { <<"/", "/", "g", "o", ":", "g", "e", "n", "e", "r", "a", "t", "e">>,
          <<" ", "\t">> \o Line(sKeyInclude, Pair(sLinux, sStar)) \o <<" ">>,
          Line(sKeyInclude, sAll),
          Line(sKeyInclude, Pair(sDarwin, sAmd64) \o <<",">> \o Pair(sLinux, sStar)),
          Line(sKeyExclude, Pair(sLinux, s386)),
          Line(sKeyExclude, Pair(sStar, sArm64) \o <<",">> \o Pair(sLinux, s386)),
          Line(sKeyOutput, sBinTemplate),
          Line(sKeyOutput, <<"x", "$">>),
          Line(<<"f", "o", "r", "m", "a", "t", "=">>, <<"z", "i", "p">>),
          Line(<<"o", "o", "p", "s", "=">>, sApp) }
      Files == {File(ls) : ls \in SeqsUpTo(Lines, MaxLines)} \cup {MissingFile}
      ShortFiles == {File(ls) : ls \in SeqsUpTo(Lines, 1)} \cup {MissingFile}
      ArgTokens ==
        { sDashO, sDashOEq \o sApp, sDashV, sDashH, sMbTargets,
          sMultibuild \o <<"-", "x">>,
          <<"p", "k", "g", "1">>,
          <<"c", "m", "d", "/", "m", "a", "i", "n", "1", ".", "g", "o">>,
          <<>> }
      OutputTokens == {sPhGoos, sPhGoarch, sPhTarget, <<"-">>}
      ValidTemplates ==
        {s \in Strings(OutputTokens) : validateTemplate(s).err = NoErr}
      OutputNames == {sApp, <<"6", "4">>}
      SomeTargets ==
        << Pair(sLinux, <<"a", "r", "m">>), Pair(sLinux, sArm64), Pair(sWindows, <<"a", "r", "m">>),
           Pair(sWindows, sArm64), Pair(<<"j", "s">>, <<"w", "a", "s", "m">>) >>
      TargetPairs ==
        {<<SomeTargets[i], SomeTargets[j]>> :
           i \in 1..Len(SomeTargets), j \in 1..Len(SomeTargets)} \
        {<<SomeTargets[i], SomeTargets[i]>> : i \in 1..Len(SomeTargets)}
      WorkDirs ==
        { [ok |-> TRUE, path |-> <<"/", "w", "/", "a", "p", "p">>], [ok |-> FALSE, path |-> <<>>] }
  IN /\ cRet = <<>>
     /\ \/ /\ cFn = "matches"
           /\ cArg \in [this : MatchStrings, target : MatchStrings]
        \/ /\ cFn = "validateFilterString"
           /\ cArg \in Strings(FilterTokens)
        \/ /\ cFn = "validateTemplate"
           /\ cArg \in Strings(TemplateTokens)
        \/ /\ cFn = "render"
           /\ cArg \in [o : [Output : Templates], a : [output : BaseNames],
                        goos : {sLinux, sWindows}, goarch : {sAmd64, sArm64}]
        \/ /\ cFn = "scanBuildDir"
           /\ cArg \in {<<f>> : f \in Files} \cup (Files \X ShortFiles)
                        \cup (ShortFiles \X Files)
                        \cup (ShortFiles \X ShortFiles \X ShortFiles)
        \/ /\ cFn = "outBins"
           /\ cArg \in [o : [Output : ValidTemplates], a : [output : OutputNames],
                        ts : TargetPairs]
        \/ /\ cFn = "main"
           /\ cArg \in SeqsUpTo(ArgTokens, MaxArgs) \X WorkDirs

\* ok := f.matches(t)
CallMatches ==
  /\ cFn = "matches" /\ cRet = <<>>
  /\ cRet' = <<matches(cArg.this, cArg.target)>>
  /\ UNCHANGED <<cFn, cArg>>

\* filters, err := validateFilterString(s)
CallValidateFilterString ==
  /\ cFn = "validateFilterString" /\ cRet = <<>>
  /\ cRet' = <<validateFilterString(cArg)>>
  /\ UNCHANGED <<cFn, cArg>>

\* parsed, err := validateTemplate(s)
CallValidateTemplate ==
  /\ cFn = "validateTemplate" /\ cRet = <<>>
  /\ cRet' = <<validateTemplate(cArg)>>
  /\ UNCHANGED <<cFn, cArg>>

\* The output path doMultibuild renders for one target.
CallRender ==
  /\ cFn = "render" /\ cRet = <<>>
  /\ cRet' = <<renderOut(cArg.o, cArg.a, cArg.goos, cArg.goarch)>>
  /\ UNCHANGED <<cFn, cArg>>

\* opts, err := scanBuildDir(sources)
CallScanBuildDir ==
  /\ cFn = "scanBuildDir" /\ cRet = <<>>
  /\ cRet' = <<scanBuildDir(cArg)>>
  /\ UNCHANGED <<cFn, cArg>>

\* The output files of the goroutines doMultibuild launches for a list.
CallOutBins ==
  /\ cFn = "outBins" /\ cRet = <<>>
  /\ cRet' = <<outBins(cArg.o, [goBuildArgs |-> <<>>, output |-> cArg.a.output], cArg.ts)>>
  /\ UNCHANGED <<cFn, cArg>>

\* func main() with os.Args[1:] = cArg[1] and os.Getwd() returning cArg[2]
CallMain ==
  /\ cFn = "main" /\ cRet = <<>>
  /\ cRet' = <<main(cArg[1], cArg[2])>>
  /\ UNCHANGED <<cFn, cArg>>

InitCalls == CallInputs /\ ResolveIdle /\ DispIdle

NextCalls ==
  /\ \/ CallMatches
     \/ CallValidateFilterString
     \/ CallValidateTemplate
     \/ CallRender
     \/ CallScanBuildDir
     \/ CallOutBins
     \/ CallMain
  /\ UNCHANGED <<resolveVars, dispVars>>

SpecCalls == InitCalls /\ [][NextCalls]_vars


(***************************************************************************)
(* Properties of the dispatcher.                                           *)
(***************************************************************************)
\* The run fans out: neither GOOS nor GOARCH is set to a non-empty value.
FanOut == Getenv("GOOS") = <<>> /\ Getenv("GOARCH") = <<>>

\* Compiler invocations started and not yet completed.
InFlight == {t \in Tasks : tpc[t] = "building"}

\* Tasks that have sent to sem and not yet received from it.
SlotHolders == {t \in Tasks : tpc[t] \in {"building", "built", "archiving"}}

\* Tasks whose compiler invocation has been started.
Started == {t \in Tasks : tpc[t] \notin {"idle", "waiting"}}

\* Tasks that have released the gate and signalled the dispatcher.
Finished == {t \in Tasks : tpc[t] \in {"done", "ended"}}

Launched == {t \in Tasks : tpc[t] # "idle"}

SomeCompileFailed == \E t \in Tasks : result[t] = "fail"

\* C1: in every reachable state at most SemCap (4) compiler invocations have
\* started and not yet completed, the gate holds one token per task between
\* its acquire and its release, never more than 4, and every invocation
\* started in a fan-out belongs to a task that acquired a slot first.
C1_GateBound ==
  /\ Cardinality(InFlight) + (IF mpc = "ptbuild" THEN 1 ELSE 0) <= SemCap
  /\ sem = Cardinality(SlotHolders)
  /\ sem <= SemCap
  /\ InFlight \subseteq SlotHolders
  /\ mpc \in {"launch", "end"} /\ FanOut
       => BagCardinality(invoked) = Cardinality(Started)

\* C1 witness: the gate is full of compiling tasks and another task waits.
C1_Witness ==
  /\ Cardinality(InFlight) = SemCap
  /\ \E t \in Tasks : tpc[t] = "waiting"

C3_FailureFailsRun ==
  /\ (run # "running" /\ SomeCompileFailed) => exitStatus # 0
  /\ (cause = "build") => (run = "exited" /\ exitStatus # 0)

\* C3 witness: the run has ended with one invocation failed and another
\* one successful.
C3_Witness ==
  /\ run # "running"
  /\ \E t, u \in Tasks : result[t] = "fail" /\ result[u] = "ok"

\* C4 (as stated, in the case it names): when the run has ended after a
\* compiler invocation failed, every launched task has finished.
C4_Original ==
  (run # "running" /\ SomeCompileFailed) => Launched \subseteq Finished

\* C4 (amended): the dispatcher returns normally only after every launched
\* task has finished; a failed compiler invocation ends the process at once
\* with status 1, whatever the other tasks are doing.
C4_ReturnAfterAll ==
  /\ (run = "returned" /\ FanOut) =>
        /\ Launched = Tasks
        /\ Finished = Tasks
        /\ wg = 0
  /\ (run = "exited" /\ cause = "build" /\ FanOut) =>
        /\ exitStatus = 1
        /\ \E t \in Tasks : result[t] = "fail" /\ tpc[t] = "built"

\* C4 witness: the process has ended on a failed invocation while one task
\* waits for the gate and another is compiling.
C4_Witness ==
  /\ run = "exited" /\ cause = "build"
  /\ \E t, u \in Tasks : tpc[t] = "waiting" /\ tpc[u] = "building"

\* The outcomes of the scan and of the resolution for the inputs of the run.
ScanOutcome == scanBuildDir(sourcesOf(args, srcFiles))

ResolveOutcome == buildTargetList(ScanOutcome.opts, GoToolDistList)

\* C5: a scan error ends the run at the scan and a resolution error at the
\* resolution, with a non-zero status, no task launched and no compiler
\* started; once a task is launched neither error has occurred or can occur.
C5_ConfigErrorsFirst ==
  LET scanned == ScanOutcome
      scanErr == scanned.err # NoErr
      resolveErr == ~scanErr /\ buildTargetList(scanned.opts, GoToolDistList).err # NoErr
  IN /\ scanErr =>
           /\ mpc = "scan"
           /\ run # "running" => exitStatus # 0
     /\ resolveErr =>
           /\ mpc \in {"scan", "resolve"}
           /\ run # "running" => exitStatus # 0
     /\ cause \in {"scan", "resolve", "panic"} =>
           /\ run # "running" /\ exitStatus # 0
           /\ Launched = {} /\ invoked = EmptyBag
     /\ (Launched # {} \/ invoked # EmptyBag) =>
           /\ ~scanErr /\ ~resolveErr
           /\ cause \notin {"scan", "resolve", "panic"}

\* C5 witness: the run has ended on a resolution error.
C5_Witness ==
  /\ run = "exited" /\ cause = "resolve"
  /\ ScanOutcome.err = NoErr /\ ResolveOutcome.err # NoErr

\* Every archive the format list asks for has been written by task t, and
\* the raw binary removed if the list does not ask for it.
OutputsHandled(t) ==
  /\ nextArchive(fmtIdx[t]) = 0
  /\ rawUnwanted => removed[t]

\* C6 (as stated): the step a task takes after its compiler invocation has
\* completed is the release of its slot.
C6_Original ==
  [][\A t \in Tasks : (tpc[t] = "built" /\ tpc'[t] # "built") => tpc'[t] = "released"]_vars

\* C6 (amended): a task releases its slot only after its compiler
\* invocation succeeded and it has written every requested archive and
\* removed an unwanted raw binary, as its next step then; when only the raw
\* format is requested that is the step after the invocation completes.
\* A task whose invocation failed never releases its slot.
C6_ReleaseAfterOutputs ==
  /\ [](\A t \in Tasks : result[t] = "fail" => tpc[t] = "built" /\ sem > 0)
  /\ [][\A t \in Tasks :
          /\ (tpc[t] # "released" /\ tpc'[t] = "released") =>
                /\ result[t] = "ok" /\ OutputsHandled(t)
                /\ sem' = sem - 1
          /\ (tpc[t] \in {"built", "archiving"} /\ OutputsHandled(t)
                /\ tpc'[t] # tpc[t]) => tpc'[t] = "released"
          /\ (tpc[t] = "built" /\ cfgFormat = <<"raw">> /\ tpc'[t] # "built")
                => tpc'[t] = "released"]_vars

\* C6 witness: a task has released its slot after writing an archive, and
\* another task's invocation has failed with its slot still held.
C6_Witness ==
  \E t, u \in Tasks :
    /\ tpc[t] = "released" /\ fmtIdx[t] # 0
    /\ result[u] = "fail" /\ sem > 0

\* The invocation the fan-out owes to the i-th resolved target.
OsOf(i) == SplitSlash(targets[i])[1]

ArchOf(i) == SplitSlash(targets[i])[2]

RenderedPath(i) ==
  LET out == renderOut(opts, args, OsOf(i), ArchOf(i))
  IN IF OsOf(i) = sWindows THEN out \o sExe ELSE out

\* What C7 looks at in an invocation, and what it expects for target i.
CallOf(c) == [args |-> c.args, goos |-> c.env[1], goarch |-> c.env[2]]

ExpectedCall(i) ==
  [args |-> <<sDashO, RenderedPath(i)>> \o args.goBuildArgs,
   goos |-> <<"GOOS", OsOf(i)>>,
   goarch |-> <<"GOARCH", ArchOf(i)>>]

\* C7: in a fan-out the compiler is started only by a task that has not
\* started it before, with that task's own target as GOOS and GOARCH and
\* -o set to that target's own rendered path, and when the run has returned
\* (every compile succeeded) it has been started exactly once for each
\* resolved target and for no other platform pair.
C7_OneInvocationPerTarget ==
  /\ []((FanOut /\ mpc \in {"launch", "end"}) =>
          /\ BagCardinality(invoked) = Cardinality(Started)
          /\ \A c \in BagToSet(invoked) : CopiesIn(c, invoked) = 1
          /\ run = "returned" =>
               Started = Tasks /\ BagCardinality(invoked) = Len(targets))
  /\ [][(FanOut /\ invoked' # invoked) =>
          \E t \in Tasks :
            /\ t \notin Started /\ Started' = Started \cup {t}
            /\ \E c \in BagToSet(invoked') :
                 /\ invoked' = invoked (+) SetToBag({c})
                 /\ ~BagIn(c, invoked)
                 /\ Len(c.env) >= 2
                 /\ CallOf(c) = ExpectedCall(t)]_vars

\* C7 witness: a fan-out over several targets, one of them for windows,
\* has returned.
C7_Witness ==
  /\ FanOut /\ run = "returned" /\ Len(targets) >= 2
  /\ \E i \in Tasks : OsOf(i) = sWindows

(***************************************************************************)
(* Properties of the resolver.                                             *)
(***************************************************************************)
\* Target t of the universe is matched by some include filter and by no
\* exclude filter of the configuration as first given.
Selected(t) ==
  /\ \E f \in Range(rOpts0.Include) : matches(f, t)
  /\ ~\E f \in Range(rOpts0.Exclude) : matches(f, t)

\* The selected targets, in the order of the universe.
FinalList == SelectSeq(rTargets0, Selected)

\* Include filter f matches no target of the final list.
Unsatisfied(f) == ~\E t \in Range(FinalList) : matches(f, t)

\* C8: every successful call returns exactly the targets of the universe
\* that some include filter matches and no exclude filter matches, in the
\* order of the universe.
C8_ResultIsSelection ==
  \A k \in 1..Len(rResults) :
    rResults[k].err = NoErr => rResults[k].targets = FinalList

\* C8 witness: the include filters are declared in another order than the
\* universe lists their targets, an exclude filter drops a target, and the
\* call succeeded with the universe's first target first.
C8_Witness ==
  /\ Len(rResults) >= 1 /\ rResults[1].err = NoErr
  /\ rOpts0.Include = <<Pair(sLinux, sStar), Pair(sWindows, sAmd64)>>
  /\ rOpts0.Exclude = <<Pair(sStar, sArm64)>>
  /\ rTargets0[1] = Pair(sWindows, sAmd64)
  /\ rResults[1].targets = <<Pair(sWindows, sAmd64), Pair(sLinux, sAmd64)>>

\* C9: a call fails, returning no target list, exactly when some include
\* filter matches no target of the final list; the error names such a filter.
C9_FailsIffUnsatisfied ==
  \A k \in 1..Len(rResults) :
    /\ rResults[k].err # NoErr <=> \E f \in Range(rOpts0.Include) : Unsatisfied(f)
    /\ rResults[k].err # NoErr =>
         /\ rResults[k].targets = <<>>
         /\ rResults[k].err.kind = "UnsatisfiableInclude"
         /\ rResults[k].err.filter \in Range(rOpts0.Include)
         /\ Unsatisfied(rResults[k].err.filter)

\* C9 witness: the call failed on the second include filter, all of whose
\* matches in the universe were excluded, while the first is satisfied.
C9_Witness ==
  /\ Len(rResults) >= 1 /\ rResults[1].err # NoErr
  /\ Len(rOpts0.Include) = 2
  /\ ~Unsatisfied(rOpts0.Include[1])
  /\ rResults[1].err.filter = rOpts0.Include[2]
  /\ \E t \in Range(rTargets0) : matches(rOpts0.Include[2], t)

Returned(fn) == cFn = fn /\ cRet # <<>>

\* The text before and after the first '/' of a string that holds one.
HasSlash(s) == \E i \in 1..Len(s) : s[i] = "/"
FirstSlash(s) ==
  CHOOSE k \in 1..Len(s) : s[k] = "/" /\ \A j \in 1..(k - 1) : s[j] # "/"
OsPart(s) == SubSeq(s, 1, FirstSlash(s) - 1)
ArchPart(s) == SubSeq(s, FirstSlash(s) + 1, Len(s))
ComponentMatches(f, t) == f = <<"*">> \/ f = t

\* C11: a filter holding a '/' matches a target exactly when the target
\* holds a '/' too and, each judged on its own, the filter's os component
\* is '*' or the target's os and the filter's arch component is '*' or the
\* target's arch; a filter without '/' matches only the target that is the
\* same whole string.  Nothing else (a prefix, a substring, a '*' inside a
\* component) makes a match.
C11_MatchesByComponent ==
  Returned("matches") =>
    cRet[1] = IF HasSlash(cArg.this)
              THEN /\ HasSlash(cArg.target)
                   /\ ComponentMatches(OsPart(cArg.this), OsPart(cArg.target))
                   /\ ComponentMatches(ArchPart(cArg.this), ArchPart(cArg.target))
              ELSE cArg.this = cArg.target

\* A wildcard os with a literal arch has matched a target.
C11_Witness ==
  /\ Returned("matches") /\ cRet[1]
  /\ cArg.this = Pair(sStar, sAmd64)
  /\ cArg.target = Pair(sLinux, sAmd64)

\* The entries of a comma-separated list: the text between the commas.
RECURSIVE Entries(_)
Entries(s) ==
  IF \A i \in 1..Len(s) : s[i] # ","
  THEN <<s>>
  ELSE LET k == CHOOSE i \in 1..Len(s) : s[i] = "," /\ \A j \in 1..(i - 1) : s[j] # ","
       IN <<SubSeq(s, 1, k - 1)>> \o Entries(SubSeq(s, k + 1, Len(s)))

\* A component is exactly '*' or one or more letters and digits; an entry
\* is a component, a '/', and a component.
WellFormedComponent(c) ==
  \/ c = <<"*">>
  \/ Len(c) >= 1 /\ \A i \in 1..Len(c) : c[i] \in LowerChars \cup UpperChars \cup DigitChars
WellFormedEntry(e) ==
  \E k \in 1..Len(e) :
    /\ e[k] = "/"
    /\ WellFormedComponent(SubSeq(e, 1, k - 1))
    /\ WellFormedComponent(SubSeq(e, k + 1, Len(e)))

\* C12: validateFilterString accepts a string exactly when the string is
\* not empty and every entry between its commas is OS '/' ARCH with each
\* component '*' or letters and digits (so an empty entry, an empty
\* component and a partial wildcard are refused); what it refuses it
\* refuses with an error, and what it accepts it returns entry by entry,
\* in input order, duplicates included.
C12_FilterGrammar ==
  Returned("validateFilterString") =>
    LET r == cRet[1]
        es == Entries(cArg)
    IN /\ r.err = NoErr <=>
            /\ cArg # <<>>
            /\ \A i \in 1..Len(es) : WellFormedEntry(es[i])
       /\ r.err = NoErr => r.filters = es
       /\ r.err # NoErr => r.err.kind = "MalformedFilter" /\ r.filters = <<>>

\* A list holding the same filter twice has been accepted.
C12_Witness ==
  /\ Returned("validateFilterString")
  /\ cRet[1].err = NoErr
  /\ cRet[1].filters = <<sAll, sAll>>

\* A template is made only of path characters and of the three
\* placeholders written out in full, from index i to its end.
PathChars == LowerChars \cup UpperChars \cup DigitChars \cup {"_", "-", "/", "."}
Placeholders == {sPhGoos, sPhGoarch, sPhTarget}
OccursAt(s, i, w) == i + Len(w) - 1 <= Len(s) /\ SubSeq(s, i, i + Len(w) - 1) = w
Occurs(s, w) == \E i \in 1..Len(s) : OccursAt(s, i, w)
RECURSIVE WellFormedFrom(_, _)
WellFormedFrom(s, i) ==
  \/ i > Len(s)
  \/ i <= Len(s) /\ s[i] \in PathChars /\ WellFormedFrom(s, i + 1)
  \/ \E w \in Placeholders : OccursAt(s, i, w) /\ WellFormedFrom(s, i + Len(w))

\* C13: validateTemplate accepts a string exactly when the string is made
\* only of path characters (letters, digits, '_', '-', '/', '.') and of
\* placeholders ${GOOS}, ${GOARCH}, ${TARGET}, with each of the three
\* present at least once; an accepted template is returned as it was
\* given; the empty string and "." are refused.
C13_TemplateGrammar ==
  Returned("validateTemplate") =>
    LET r == cRet[1]
    IN /\ r.err = NoErr <=>
            /\ WellFormedFrom(cArg, 1)
            /\ \A w \in Placeholders : Occurs(cArg, w)
       /\ r.err = NoErr => r.tmpl = cArg
       /\ cArg \in {<<>>, <<".">>} => r.err # NoErr

\* A template with a literal directory and the three placeholders has been
\* accepted.
C13_Witness ==
  /\ Returned("validateTemplate")
  /\ cRet[1].err = NoErr
  /\ cArg = <<"b", "i", "n", "/">> \o sPhGoos \o sPhGoarch \o sPhTarget

\* C14: on every input validateTemplate ends by returning a template or
\* an InvalidTemplate error, with no other outcome, also on a '$' that is
\* the last character and on a placeholder that the end of the input
\* leaves unterminated.
C14_ReturnsTemplateOrError ==
  Returned("validateTemplate") =>
    \/ cRet[1].err = NoErr
    \/ cRet[1].err.kind = "InvalidTemplate"

\* The template with each of its own placeholder occurrences, from index i
\* on, replaced by the value of that placeholder, and every other
\* character kept.
RECURSIVE Substituted(_, _, _)
Substituted(tmpl, i, val) ==
  IF i > Len(tmpl) THEN <<>>
  ELSE IF \E w \in Placeholders : OccursAt(tmpl, i, w)
  THEN LET w == CHOOSE w \in Placeholders : OccursAt(tmpl, i, w)
       IN val[w] \o Substituted(tmpl, i + Len(w), val)
  ELSE <<tmpl[i]>> \o Substituted(tmpl, i + 1, val)

\* C15: rendering a validated template for a base name, an os and an arch
\* keeps the characters outside the placeholders and replaces exactly the
\* template's own placeholders, ${TARGET} by the base name, ${GOOS} by the
\* os and ${GOARCH} by the arch; the text a value brings in is not
\* substituted again.
C15_RendersOwnPlaceholders ==
  Returned("render") =>
    cRet[1] = Substituted(cArg.o.Output, 1,
                (sPhTarget :> cArg.a.output) @@ (sPhGoos :> cArg.goos)
                  @@ (sPhGoarch :> cArg.goarch))

\* The lines of the sources of a scan: a directive is a line that starts
\* with the marker once the white space around it is trimmed away.
sKeyFormat == <<"f", "o", "r", "m", "a", "t", "=">>
StartsWith(text, w) ==
  \E i \in 1..Len(text) :
    (\A j \in 1..(i - 1) : text[j] \in SpaceChars) /\ OccursAt(text, i, w)
IsDirective(text) == StartsWith(text, sMarker)
HasKey(text, key) == StartsWith(text, sMarker \o key)
UnknownDirective(text) ==
  /\ IsDirective(text)
  /\ \A key \in {sKeyInclude, sKeyExclude, sKeyOutput, sKeyFormat} : ~HasKey(text, key)
LinesOf(sources, k) == sources[k].lines
OnlyDirectives(lines) == SelectSeq(lines, IsDirective)
WithoutPlainLines(sources) ==
  [k \in 1..Len(sources) |->
     [exists |-> sources[k].exists, lines |-> OnlyDirectives(sources[k].lines)]]

\* C16: a line that is a directive with none of the keys include=,
\* exclude=, output=, format= makes the whole scan fail; when nothing but
\* lines that are no directives comes before it, the error names its source
\* and its line number counted from 1; and the lines that are no directives
\* change nothing: the scan of the sources without them gives the same
\* options, or an error of the same kind in the same source.
C16_UnknownDirectiveFails ==
  Returned("scanBuildDir") =>
    LET r == cRet[1]
        bare == scanBuildDir(WithoutPlainLines(cArg))
    IN /\ \A k \in 1..Len(cArg) : \A i \in 1..Len(LinesOf(cArg, k)) :
            UnknownDirective(LinesOf(cArg, k)[i]) =>
              /\ r.err # NoErr
              /\ ( /\ \A h \in 1..k : cArg[h].exists
                   /\ \A h \in 1..(k - 1) : OnlyDirectives(LinesOf(cArg, h)) = <<>>
                   /\ \A j \in 1..(i - 1) : ~IsDirective(LinesOf(cArg, k)[j]) )
                 => r.err = ScanErr("UnknownDirective", k, i)
       /\ r.opts = bare.opts
       /\ r.err.kind = bare.err.kind
       /\ r.err # NoErr /\ r.err # Panic => r.err.source = bare.err.source

\* The second line of the second source, after two lines that are no
\* directives, is an unknown directive and the scan has failed on it.
C16_Witness ==
  /\ Returned("scanBuildDir")
  /\ Len(cArg) = 2 /\ Len(LinesOf(cArg, 1)) = 1 /\ Len(LinesOf(cArg, 2)) = 2
  /\ ~IsDirective(LinesOf(cArg, 1)[1]) /\ ~IsDirective(LinesOf(cArg, 2)[1])
  /\ UnknownDirective(LinesOf(cArg, 2)[2])
  /\ cRet[1].err = ScanErr("UnknownDirective", 2, 2)

\* The places <<source, line>> of the directives with a given key, and the
\* value such a directive gives to its key.
DirectivesWith(sources, key) ==
  {p \in (1..Len(sources)) \X (1..(MaxLines + 1)) :
     /\ p[2] <= Len(LinesOf(sources, p[1]))
     /\ HasKey(LinesOf(sources, p[1])[p[2]], key)}
ValueAt(sources, p, key) ==
  TrimPrefix(TrimSpace(LinesOf(sources, p[1])[p[2]]), sMarker \o key)

\* C17: a scan whose sources hold two or more output= directives, in one
\* source or in several, fails whatever the values are; a scan that
\* succeeds saw at most one, and its template is the value of that one
\* (the default template when there was none).
C17_SingleOutput ==
  Returned("scanBuildDir") =>
    LET r == cRet[1]
        outs == DirectivesWith(cArg, sKeyOutput)
    IN /\ Cardinality(outs) >= 2 => r.err # NoErr
       /\ r.err = NoErr =>
            /\ Cardinality(outs) <= 1
            /\ \A p \in outs : r.opts.Output = ValueAt(cArg, p, sKeyOutput)
            /\ outs = {} => r.opts.Output = sDefaultOutput

\* Two sources with a well-formed output= directive each: the scan has
\* failed on the second source with DuplicateOutput.
C17_Witness ==
  /\ Returned("scanBuildDir")
  /\ DirectivesWith(cArg, sKeyOutput) = {<<1, 1>>, <<2, 1>>}
  /\ ValueAt(cArg, <<1, 1>>, sKeyOutput) = sBinTemplate
  /\ ValueAt(cArg, <<2, 1>>, sKeyOutput) = sBinTemplate
  /\ cRet[1].err = ScanErr("DuplicateOutput", 2, 0)

\* The include and exclude lists scanned from each source on its own,
\* one after the other in the order of the sources.
RECURSIVE PerSourceLists(_, _, _)
PerSourceLists(sources, k, field) ==
  IF k > Len(sources) THEN <<>>
  ELSE scanBuildPath(LinesOf(sources, k), k).opts[field]
         \o PerSourceLists(sources, k + 1, field)

\* C18: the include list of a successful scan of several sources that
\* declare include filters is the include lists of the sources one after
\* the other, in the order the sources were given, nothing dropped, moved
\* or deduplicated; likewise the exclude list, before the two fixed
\* exclusions the scan appends.
C18_ListsConcatenate ==
  (Returned("scanBuildDir") /\ cRet[1].err = NoErr) =>
    LET r == cRet[1]
        inc == PerSourceLists(cArg, 1, "Include")
        exc == PerSourceLists(cArg, 1, "Exclude")
    IN /\ inc # <<>> => r.opts.Include = inc
       /\ SubSeq(r.opts.Exclude, 1, Len(exc)) = exc
       /\ Len(r.opts.Exclude) = Len(exc) + 2

\* Two sources that both declare linux/*: the merged list holds the first
\* source's two filters and then linux/* a second time.
C18_Witness ==
  /\ Returned("scanBuildDir") /\ cRet[1].err = NoErr
  /\ Len(cArg) = 2
  /\ scanBuildPath(LinesOf(cArg, 1), 1).opts.Include = <<Pair(sDarwin, sAmd64), Pair(sLinux, sStar)>>
  /\ scanBuildPath(LinesOf(cArg, 2), 2).opts.Include = <<Pair(sLinux, sStar)>>
  /\ cRet[1].opts.Include = <<Pair(sDarwin, sAmd64), Pair(sLinux, sStar), Pair(sLinux, sStar)>>

\* The filters the directives with a given key declare, as a set.
DeclaredFilters(sources, key) ==
  UNION { Range(Entries(ValueAt(sources, p, key))) : p \in DirectivesWith(sources, key) }

\* C19 as stated: after a successful scan the include list is the single
\* filter */* if and only if no source declared an include filter; when one
\* was declared the list holds only declared filters.
C19_WildcardIffNoneDeclared ==
  (Returned("scanBuildDir") /\ cRet[1].err = NoErr) =>
    /\ cRet[1].opts.Include = <<sAll>> <=> DirectivesWith(cArg, sKeyInclude) = {}
    /\ DirectivesWith(cArg, sKeyInclude) # {} =>
         Range(cRet[1].opts.Include) \subseteq DeclaredFilters(cArg, sKeyInclude)

\* C19, amended: after a successful scan the include list is the single
\* filter */* when no source declared an include filter; when one was
\* declared the list is the lists scanned from the sources, not empty and
\* made only of declared filters, with no */* put in for a source that
\* declared none (so it is */* alone only if */* itself was declared).
C19_DefaultOnlyWhenNoneDeclared ==
  (Returned("scanBuildDir") /\ cRet[1].err = NoErr) =>
    LET inc == cRet[1].opts.Include
        declared == DirectivesWith(cArg, sKeyInclude)
    IN /\ declared = {} => inc = <<sAll>>
       /\ declared # {} =>
            /\ inc # <<>>
            /\ inc = PerSourceLists(cArg, 1, "Include")
            /\ Range(inc) \subseteq DeclaredFilters(cArg, sKeyInclude)
       /\ inc = <<sAll>> =>
            declared = {} \/ sAll \in DeclaredFilters(cArg, sKeyInclude)

\* A first source without include filters and a second one declaring
\* linux/*: the list is linux/* alone.
C19_Witness ==
  /\ Returned("scanBuildDir") /\ cRet[1].err = NoErr
  /\ Len(cArg) = 2
  /\ DirectivesWith(cArg, sKeyInclude) = {<<2, 1>>}
  /\ cRet[1].opts.Include = <<Pair(sLinux, sStar)>>

\* The filters the directives with a given key declare, in the order of
\* their declaration: source by source and, in a source, line by line.
RECURSIVE DeclaredInLines(_, _, _)
DeclaredInLines(lines, i, key) ==
  IF i > Len(lines) THEN <<>>
  ELSE (IF HasKey(lines[i], key)
        THEN Entries(TrimPrefix(TrimSpace(lines[i]), sMarker \o key))
        ELSE <<>>) \o DeclaredInLines(lines, i + 1, key)
RECURSIVE DeclaredInOrder(_, _, _)
DeclaredInOrder(sources, k, key) ==
  IF k > Len(sources) THEN <<>>
  ELSE DeclaredInLines(LinesOf(sources, k), 1, key) \o DeclaredInOrder(sources, k + 1, key)

\* C20: the exclude list of every successful scan is the declared exclude
\* filters in the order of their declaration, then android/*, then ios/*,
\* whatever the sources declare and whatever the environment holds.
C20_ExcludesThenFixedPair ==
  (Returned("scanBuildDir") /\ cRet[1].err = NoErr) =>
    cRet[1].opts.Exclude =
      DeclaredInOrder(cArg, 1, sKeyExclude) \o <<sAndroidAll, sIosAll>>

(***************************************************************************)
(* Properties of the dispatcher: pass-through, environment, archives.      *)
(***************************************************************************)
\* The caller's environment holds a non-empty GOOS or a non-empty GOARCH.
NonEmptyIn(name) == environ[name].set /\ environ[name].val # <<>>
TargetGiven == NonEmptyIn("GOOS") \/ NonEmptyIn("GOARCH")

\* The run has got past the introspection flags to the choice of its mode.
PastMode == mpc \in {"passthrough", "ptbuild", "launch", "end"}

\* C21: with GOOS or GOARCH set to a non-empty value in the caller's
\* environment the run launches no per-target task and, once past its
\* choice of mode, makes exactly one compiler invocation, with the caller's
\* arguments as given (no -o put in) and nothing added to the environment;
\* with neither set the run never passes through and fans out.
C21_PassThrough ==
  /\ TargetGiven =>
       /\ Launched = {}
       /\ mpc # "launch"
       /\ BagToSet(invoked) \subseteq {[args |-> args.goBuildArgs, env |-> <<>>]}
       /\ BagCardinality(invoked) = (IF mpc \in {"ptbuild", "end"} THEN 1 ELSE 0)
  /\ ~TargetGiven =>
       /\ mpc \notin {"passthrough", "ptbuild"}
       /\ PastMode => mpc \in {"launch", "end"}
       /\ run = "returned" => Launched = Tasks /\ BagCardinality(invoked) = Len(targets)
       /\ \A c \in BagToSet(invoked) : Len(c.env) >= 2 /\ c.env[1][1] = "GOOS"

\* A pass-through run with GOARCH alone set, CGO_ENABLED undefined and a
\* caller's flag has returned after its single invocation.
C21_Witness ==
  /\ run = "returned" /\ mpc = "end"
  /\ NonEmptyIn("GOARCH") /\ ~environ["GOOS"].set /\ ~environ["CGO_ENABLED"].set
  /\ args.goBuildArgs = <<sDashV>>
  /\ Len(targets) >= 1
  /\ BagCardinality(invoked) = 1

\* The entries a command adds to the caller's environment for a variable,
\* and the value the child process sees for it: the last entry added, or
\* else what the caller's environment holds.
AddedFor(c, name) == SelectSeq(c.env, LAMBDA e : e[1] = name)
ChildSees(c, name) ==
  IF AddedFor(c, name) # <<>>
  THEN SetTo(AddedFor(c, name)[Len(AddedFor(c, name))][2])
  ELSE environ[name]

\* C22: a per-target compiler invocation has CGO_ENABLED=0 added to its
\* environment exactly when the caller's environment does not define
\* CGO_ENABLED; when the caller defines it, with whatever value, the empty
\* one included, nothing is added for it and the child sees the caller's
\* value.
C22_CgoOffUnlessDefined ==
  ~TargetGiven =>
    \A c \in BagToSet(invoked) :
      /\ AddedFor(c, "CGO_ENABLED") # <<>> <=> ~environ["CGO_ENABLED"].set
      /\ ~environ["CGO_ENABLED"].set => AddedFor(c, "CGO_ENABLED") = << <<"CGO_ENABLED", <<"0">> >> >>
      /\ environ["CGO_ENABLED"].set => ChildSees(c, "CGO_ENABLED") = environ["CGO_ENABLED"]

\* Two per-target invocations have been started under a caller's
\* environment that defines CGO_ENABLED as the empty string.
C22_Witness ==
  /\ environ["CGO_ENABLED"] = SetTo(<<>>)
  /\ BagCardinality(invoked) >= 2
  /\ \A c \in BagToSet(invoked) : ChildSees(c, "CGO_ENABLED") = SetTo(<<>>)


\* C23 (as stated): after a successful compile a failed archive step or a
\* failed removal of the raw binary leaves the run going with status 0.
C23_Original ==
  (cause = "archive" \/ \E t \in Tasks : rmErr[t]) =>
     (run # "exited" /\ exitStatus = 0)

\* C23 (amended): a failed archive step of a task whose compile succeeded
\* ends the process at once with status 1; a failed removal of the raw
\* binary ends nothing: the task goes on to release the gate, and a run that
\* returns after such a failure has status 0 with every task completed.
C23_OnlyRemovalTolerated ==
  /\ cause = "archive" =>
       /\ run = "exited" /\ exitStatus = 1
       /\ \E t \in Tasks : result[t] = "ok" /\ tpc[t] \in {"built", "archiving"}
                              /\ nextArchive(fmtIdx[t]) # 0
  /\ cause # "remove"
  /\ \A t \in Tasks : rmErr[t] =>
       /\ removed[t] /\ result[t] = "ok"
       /\ tpc[t] \in {"archiving", "released", "done", "ended"}
  /\ (run = "returned" /\ \E t \in Tasks : rmErr[t]) =>
       (exitStatus = 0 /\ Finished = Tasks)

\* C23 witness: a run over two targets has returned with status 0 although
\* the removal of one raw binary failed and the other succeeded.
C23_Witness ==
  /\ run = "returned" /\ exitStatus = 0 /\ Len(targets) = 2
  /\ rmErr[1] /\ ~rmErr[2] /\ removed[2]


RawRequested == \E j \in 1..Len(cfgFormat) : cfgFormat[j] = "raw"
ArchivesWritten(t) ==
  \A j \in 1..Len(cfgFormat) : cfgFormat[j] # "raw" => j <= fmtIdx[t]

RECURSIVE IsOutputValue(_, _)
IsOutputValue(argv, i) ==
  i > 1 /\ argv[i - 1] = sDashO /\ ~IsOutputValue(argv, i - 1)

\* The non-flag arguments: no leading '-', and not the value of "-o".
NonFlags(argv) ==
  {i \in 1..Len(argv) : ~IsOutputValue(argv, i) /\ (argv[i] = <<>> \/ argv[i][1] # "-")}

\* An argument that starts with --multibuild and is neither of the two known flags.
UnknownMultibuild(argv) ==
  {i \in 1..Len(argv) :
     /\ ~IsOutputValue(argv, i)
     /\ Len(argv[i]) >= Len(sMultibuild)
     /\ \A j \in 1..Len(sMultibuild) : argv[i][j] = sMultibuild[j]
     /\ argv[i] \notin {sMbConfiguration, sMbTargets}}

\* A non-flag argument that follows a non-empty non-flag argument.
SecondPackage(argv) ==
  {i \in NonFlags(argv) :
     \E j \in NonFlags(argv) :
        /\ j < i /\ argv[j] # <<>>
        /\ \A k \in NonFlags(argv) : ~(j < k /\ k < i)}

\* C25 (as stated): main with more than one non-flag argument ends in
\* fatal() with a non-zero status and never enters doMultibuild; with zero
\* or one non-flag argument parsing succeeds, and with none the package
\* path is ".".
C25_Original ==
  Returned("main") =>
    LET argv == cArg[1]
        r == cRet[1]
    IN /\ Cardinality(NonFlags(argv)) > 1 =>
            (r.step = "fatal" /\ r.exit # <<0>> /\ r.err # NoErr)
       /\ Cardinality(NonFlags(argv)) <= 1 =>
            /\ r.step # "fatal" /\ r.err = NoErr
            /\ Cardinality(NonFlags(argv)) = 0 => r.args.packagePath = sDot

\* C25 (amended): parsing fails exactly when an unknown --multibuild
\* argument or a non-flag argument after a non-empty non-flag argument is
\* met; main then ends in fatal() with status 1 and never enters
\* doMultibuild.  More than one non-empty non-flag argument always fails.
\* With zero or one non-flag argument and no unknown --multibuild argument
\* parsing succeeds; the package path is "." when no non-empty non-flag
\* argument is given, and main goes on to the usage text or doMultibuild
\* unless the working directory, needed for the output name, cannot be read.
C25_SecondPackageRefused ==
  Returned("main") =>
    LET argv == cArg[1]
        wd == cArg[2]
        r == cRet[1]
        named == {i \in NonFlags(argv) : argv[i] # <<>>}
    IN /\ r.err # NoErr <=> (UnknownMultibuild(argv) # {} \/ SecondPackage(argv) # {})
       /\ r.err # NoErr => (r.step = "fatal" /\ r.exit = <<1>>)
       /\ Cardinality(named) > 1 => r.err # NoErr
       /\ (Cardinality(NonFlags(argv)) <= 1 /\ UnknownMultibuild(argv) = {}) =>
            /\ r.err = NoErr
            /\ named = {} => r.args.packagePath = sDot
            /\ wd.ok => r.step \in {"usage", "doMultibuild"}
       /\ r.step = "doMultibuild" => (r.err = NoErr /\ r.exit = <<>>)

\* C25 witness: main was given a package path and a .go file and ended in
\* fatal() with "cannot build multiple packages".
C25_Witness ==
  /\ Returned("main")
  /\ Len(cArg[1]) = 2 /\ NonFlags(cArg[1]) = {1, 2}
  /\ cArg[1][1] # <<>> /\ cArg[1][2] # <<>> /\ cArg[1][1] # cArg[1][2]
  /\ cRet[1].step = "fatal" /\ cRet[1].err = ErrMultiple


\* C26: for a validated template and a list of two distinct targets, the
\* two goroutines are given different output files: the rendered paths,
\* with ".exe" appended for windows, are different strings.
C26_DistinctOutputs ==
  Returned("outBins") =>
    /\ validateTemplate(cArg.o.Output).err = NoErr
    /\ cArg.ts[1] # cArg.ts[2]
    /\ Len(cRet[1]) = 2
    /\ cRet[1][1] # cRet[1][2]

\* C26 witness: with the placeholders side by side and the binary named
\* "64", linux/arm renders "linuxarm64" and linux/arm64 "linuxarm6464".
C26_Witness ==
  /\ Returned("outBins")
  /\ cArg.o.Output = sPhGoos \o sPhGoarch \o sPhTarget
  /\ cArg.a.output = <<"6", "4">>
  /\ cArg.ts = <<Pair(sLinux, <<"a", "r", "m">>), Pair(sLinux, sArm64)>>
  /\ cRet[1][1] = sLinux \o sArm64
  /\ cRet[1][2] = sLinux \o sArm64 \o <<"6", "4">>


\* No exclude filter of the configuration as first given matches target t.
NotExcluded(t) == ~\E f \in Range(rOpts0.Exclude) : matches(f, t)

\* C27 (as stated): a call on a configuration with an empty include list
\* succeeds and returns every target of the universe that no exclude filter
\* matches.
C27_Original ==
  \A k \in 1..Len(rResults) :
    rOpts0.Include = <<>> =>
      /\ rResults[k].err = NoErr
      /\ rResults[k].targets = SelectSeq(rTargets0, NotExcluded)

\* C27 (amended): a call on a configuration with an empty include list
\* succeeds and returns the empty list, whatever the universe and the
\* exclude list; a call with the single include filter */* returns every
\* target no exclude filter matches when there is one, and fails with the
\* unsatisfiable-include error when there is none.
C27_EmptyIncludeSelectsNothing ==
  \A k \in 1..Len(rResults) :
    /\ rOpts0.Include = <<>> =>
         (rResults[k].err = NoErr /\ rResults[k].targets = <<>>)
    /\ rOpts0.Include = <<sAll>> =>
         IF SelectSeq(rTargets0, NotExcluded) # <<>>
         THEN /\ rResults[k].err = NoErr
              /\ rResults[k].targets = SelectSeq(rTargets0, NotExcluded)
         ELSE /\ rResults[k].err # NoErr
              /\ rResults[k].err.kind = "UnsatisfiableInclude"
              /\ rResults[k].targets = <<>>

\* C27 witness: a call with no include filter and one exclude filter on a
\* universe that holds targets the exclude filter does not match has
\* returned the empty list without an error.
C27_Witness ==
  /\ Len(rResults) >= 1
  /\ rOpts0.Include = <<>> /\ Len(rOpts0.Exclude) = 1
  /\ Len(SelectSeq(rTargets0, NotExcluded)) >= 2
  /\ Len(SelectSeq(rTargets0, NotExcluded)) < Len(rTargets0)
  /\ rResults[1] = [targets |-> <<>>, err |-> NoErr]


\* C28: the configuration scanned from a single source holds, as its
\* include list, the filters of all the include= lines of the source in
\* line order, and as its exclude list the filters of all its exclude=
\* lines in line order (before the two fixed exclusions).
C28_LinesConcatenate ==
  (Returned("scanBuildDir") /\ cRet[1].err = NoErr /\ Len(cArg) = 1) =>
    LET inc == DeclaredInLines(LinesOf(cArg, 1), 1, sKeyInclude)
        exc == DeclaredInLines(LinesOf(cArg, 1), 1, sKeyExclude)
    IN /\ inc # <<>> => cRet[1].opts.Include = inc
       /\ SubSeq(cRet[1].opts.Exclude, 1, Len(cRet[1].opts.Exclude) - 2) = exc


\* The tasks that wrote an archive whose deferred Close calls have not run.
Unfinalized == {t \in Tasks : fmtIdx[t] # 0 /\ tpc[t] # "ended"}

\* C29: a task that has called wg.Done() has no unfinalized archive, and
\* when the dispatcher has returned with status 0 no task has one.
C29_FinalizedBeforeDone ==
  /\ \A t \in Tasks : tpc[t] = "done" => t \notin Unfinalized
  /\ (run = "returned" /\ exitStatus = 0) => Unfinalized = {}


\* The scan and the resolution of the run have both succeeded.
Resolved == mpc \notin {"scan", "resolve"}

\* Target t is one of the platforms the two fixed exclusions name.
FixedExcluded(t) == OsPart(t) \in {sAndroid, sIos}

\* Filter f, judged component by component, matches target t.
FilterMatches(f, t) ==
  /\ ComponentMatches(OsPart(f), OsPart(t))
  /\ ComponentMatches(ArchPart(f), ArchPart(t))

\* Include filter f matches a target of the toolchain's list that is
\* neither an android nor an ios target.
MatchesBuildable(f) ==
  \E i \in 1..Len(GoToolDistList) :
     FilterMatches(f, GoToolDistList[i]) /\ ~FixedExcluded(GoToolDistList[i])

\* C30: a scanned configuration ends its exclude list with android/* and
\* ios/*; a resolved target list holds no android and no ios target; the
\* resolution succeeds only when every include filter of the scanned
\* configuration matches a target that is neither, and it fails with the
\* unsatisfiable-include error, ending the run with status 1 before any
\* compiler invocation, when some include filter matches android or ios
\* targets only.
C30_NoAndroidNoIos ==
  /\ mpc # "scan" =>
       /\ Len(opts.Exclude) >= 2
       /\ opts.Exclude[Len(opts.Exclude) - 1] = sAndroidAll
       /\ opts.Exclude[Len(opts.Exclude)] = sIosAll
  /\ Resolved =>
       /\ \A i \in 1..Len(targets) : ~FixedExcluded(targets[i])
       /\ \A f \in Range(opts.Include) : MatchesBuildable(f)
  /\ cause = "resolve" =>
       /\ run = "exited" /\ exitStatus = 1 /\ invoked = EmptyBag
       /\ buildTargetList(opts, GoToolDistList).err.kind = "UnsatisfiableInclude"

\* C30 witness: the source declares include=android/arm64, the toolchain
\* lists android/arm64, and the run has ended in the resolution error.
C30_Witness ==
  /\ run = "exited" /\ cause = "resolve"
  /\ opts.Include = <<Pair(sAndroid, sArm64)>>
  /\ \E i \in 1..Len(GoToolDistList) : GoToolDistList[i] = Pair(sAndroid, sArm64)

====
